---- MODULE Spec2Model ----
(***************************************************************************)
(* Displacement engine of the Dispace Figma plugin: effect parameter       *)
(* state, render scheduler (batch / debounce), image and map loaders and   *)
(* the raster exporter, as one state machine of a single engine instance.  *)
(*                                                                         *)
(* JavaScript's run-to-completion is kept: one action is one synchronous   *)
(* call, one event callback (timer, image onload, FileReader, toBlob) or   *)
(* one promise continuation.  Promise continuations wait in microtasks, a  *)
(* FIFO queue that is emptied before the next event callback runs.         *)
(***************************************************************************)
EXTENDS Integers, Sequences, FiniteSets, TLC

VARIABLES
  settings,      \* EffectStateManager.settings
  engineState,   \* EngineState (shared by all components of one engine)
  svg,           \* attributes of the SVG filter graph (SVGElements)
  renderer,      \* FilterRenderer fields, canvas included
  timer,         \* the debounce closure's timer (FilterRenderer.debouncedUpdate)
  reflect,       \* createReflectEffect closure state and its graph attributes
  loader,        \* ImageLoader fields (currentImageId, originalMirroredDataUrl)
  layerImageCache, \* ImageLoader.layerImageCache: keys, oldest first
  inflightLoads, \* ImageLoader.inflightLoads: key -> map loads waiting, in order
  imageCache,    \* utils/image imageCache: entries, oldest timestamp first
  mapLoads,      \* calls of loadMap / loadMapAndWait, by issue number
  srcLoads,      \* calls of loadSourceFromBytes, by issue number
  export,        \* the getImageBytes call in progress, if any
  microtasks,    \* promise continuations ready to run, FIFO
  app,           \* the App around the engine: shuffle lock, timeouts, sliders
  resources,     \* the resourceManager singleton: manifest, cache, loads
  thumbs,        \* the gallery's ThumbnailRenderer: generation, task queue
  hist           \* history: last operation, counters used to state the claims

vars == <<settings, engineState, svg, renderer, timer, reflect, loader,
          layerImageCache, inflightLoads, imageCache, mapLoads, srcLoads,
          export, microtasks, app, resources, thumbs, hist>>

(***************************************************************************)
(* Bounds of the model                                                     *)
(***************************************************************************)
MaxMapLoads == 2      \* loadMap / loadMapAndWait calls per behaviour
MaxSrcLoads == 2      \* loadSourceFromBytes calls per behaviour
MaxRenders == 3       \* recomputes (renderGeneration) per behaviour
MaxExports == 2       \* getImageBytes calls per behaviour
MaxCalls == 4         \* engine API calls per behaviour
TickMs == 10          \* milliseconds one Tick step advances the clock by
MaxThumbs == 6        \* renderPresetThumbnail calls per behaviour
MaxBumps == 1         \* bumpGeneration calls per behaviour

(***************************************************************************)
(* Program constants (config/constants.ts)                                 *)
(***************************************************************************)
INITIAL_SIZE == 512
FILTER_MARGIN_PERCENT == 20
CNV_MAX == 1024
DEBOUNCE_DELAY == 20
PREVIEW_MAX_SIZE == 500
IMAGE_CACHE_MAX_SIZE == 10
BASE_STRENGTH_DIVISOR == 10
STRENGTH_FACTOR == 100
BLUR_FACTOR == 500
BLUR_SOFTNESS_FACTOR_X2 == 21     \* BLUR_SOFTNESS_FACTOR 10.5, doubled
DEFAULT_SCALE == 20
SHUFFLE_TIMEOUT_MS == 5000
FINAL_RENDER_DELAY == 5
MAX_RETRIES == 3
FIGMA_ABSOLUTE_LIMIT == 4096
EXPORT_SIZE == 1024        \* exportWidth, exportHeight of exportSVGCode
DEFAULT_SHARPNESS == 50
ENABLE_PREVIEW_OPTIMIZATION == TRUE
MATCH_PREVIEW_ON_EXPORT == FALSE

(***************************************************************************)
(* Arithmetic helpers                                                      *)
(***************************************************************************)
Max2(a, b) == IF a >= b THEN a ELSE b
Min2(a, b) == IF a <= b THEN a ELSE b

RECURSIVE Gcd(_, _)
Gcd(a, b) == IF b = 0 THEN a ELSE Gcd(b, a % b)

\* A non-negative rational n/d in lowest terms; JS numbers that are not
\* integers are kept exact this way.
Frac(n, d) == LET g == Gcd(n, d) IN [n |-> n \div g, d |-> d \div g]

\* Math.round of the non-negative rational n/d
Round(n, d) == (2 * n + d) \div (2 * d)

Null == "null"
NoHref == [k |-> "none"]          \* getAttribute('href') === null
EmptyHref == [k |-> "empty"]      \* href=""

(***************************************************************************)
(* Inputs: map images by URL, files, source byte buffers                   *)
(***************************************************************************)
\* An HTMLImageElement is identified by its src; "bad" does not decode.
Urls == {"u1", "u2", "bad"}
\* URLs of the maps other engine instances and prefetches work with
PrefetchUrls == <<"c1", "c2", "c11", "c12", "bad", "u1">>
UrlIndex(u) == CHOOSE n \in 1..Len(PrefetchUrls) : PrefetchUrls[n] = u
\* States earlier engine instances of the page can have left the static
\* cache in: empty, one below its maximum, or at its maximum
WarmCaches ==
  {<<>>,
   <<"c1", "c2", "c3", "c4", "c5", "c6", "c7", "c8", "c9">>,
   <<"c1", "c2", "c3", "c4", "c5", "c6", "c7", "c8", "c9", "c10">>}
Files == {"f1"}
\* Map assets named by resource:// URLs. The manifest the resource manager
\* fetched at start-up lists r1 (outside the category it preloads), or it
\* could not be fetched and nothing is listed.
ResourceUrls == {"resource://r1"}
Manifests == {{"r1"}, {}}
\* src.replace('resource://', '')
ResourceId(src) == IF src = "resource://r1" THEN "r1" ELSE src
\* blobToDataUrl of the fetched asset
ResourceData(id) == "data:" \o id
\* createFallbackTexture: a data URL of an SVG checker pattern
FallbackTexture == "data:image/svg+xml;base64,fallback"
DataUrlOf(f) == "data:" \o f          \* FileReader.readAsDataURL
Keys == Urls \cup {DataUrlOf(f) : f \in Files}
Decodable(u) == u # "bad"
MapWidth(u) == IF u = "u1" THEN 64 ELSE IF u = "u2" THEN 256 ELSE 32
MapHeight(u) == IF u = "u1" THEN 64 ELSE IF u = "u2" THEN 128 ELSE 32

\* Source images: b1 fits the preview bounds, b2 exceeds them and CNV_MAX,
\* "bad" is not an image, "empty" has length 0.
Bytes == {"b1", "b2", "bad", "empty"}
\* Sources around the export ceiling: b3 is twice the ceiling wide, b4 is a
\* portrait image above it, b5 a long strip above it
LargeBytes == {"b3", "b4", "b5"}
\* b1 and a copy of it edited in the middle: byte 33 of 65 differs
CollidingBytes == {"b1", "b1m"}
SrcDecodable(b) == b \in {"b1", "b2", "b1m"} \cup LargeBytes
\* Buffers of source images processed earlier in the session
WarmBytes == <<"k1", "k2", "k3", "k4", "k5", "k6", "k7", "k8", "k9", "k10">>
\* The bytes of the buffers
Filled(n, v) == [i \in 1..n |-> v]
Content(b) ==
  CASE b = "b1" -> Filled(32, 137) \o <<7>> \o Filled(32, 130)
    [] b = "b1m" -> Filled(32, 137) \o <<9>> \o Filled(32, 130)
    [] b = "b2" -> Filled(32, 255) \o <<7>> \o Filled(32, 217)
    [] b = "b3" -> Filled(40, 3)
    [] b = "b4" -> Filled(40, 4)
    [] b = "b5" -> Filled(40, 5)
    [] b = "bad" -> <<0, 0>>
    [] b = "empty" -> <<>>
    [] OTHER -> <<CHOOSE n \in 1..Len(WarmBytes) : WarmBytes[n] = b>>
SrcWidth(b) ==
  CASE b = "b1" -> 400 [] b = "b3" -> 8192 [] b = "b4" -> 3000
    [] b = "b5" -> 6000 [] OTHER -> 2048
SrcHeight(b) ==
  CASE b = "b1" -> 300 [] b = "b3" -> 4096 [] b = "b4" -> 5000
    [] b = "b5" -> 40 [] OTHER -> 1024

\* Dimensions updateImageDimensions is called with
DimValues == <<<<INITIAL_SIZE, INITIAL_SIZE>>, <<400, 300>>, <<2048, 1024>>>>

\* States the source images processed earlier in the session can have left
\* the processed-image cache in: one below its maximum size, or at it
WarmImageCaches == {SubSeq(WarmBytes, 1, 9), WarmBytes}

\* Values the callers pass to the setters
StrengthValues == {0, 100}
ChromaticValues == {0, 10}
BlurValues == {0, 2}
SoftValues == {0, 1}
ScaleValues == {20, 50}
DissolveValues == {0, 5}
OpacityValues == {0, 30}
SharpnessValues == {50, 80}

\* A layer of engineState.layerImages; scale 0 stands for undefined
Layer(img, tiling, scale, opacity) ==
  [image |-> img, tiling |-> tiling, scale |-> scale, opacity |-> opacity]
SingleLayer(img) == <<Layer(img, "tiled", 0, 100)>>

(***************************************************************************)
(* EffectStateManager                                                      *)
(* feDispMap scales are kept in units of 1/(BASE_STRENGTH_DIVISOR *        *)
(* STRENGTH_FACTOR^2), the source blur in units of 1/BLUR_FACTOR.          *)
(***************************************************************************)
DispS(st, w, h) == st.strength * Max2(w, h) * STRENGTH_FACTOR
DispCA(st, w, h) == st.strength * st.chromaticAberration * Max2(w, h)

UpdateDisplacementScales(sv, st, es) ==
  LET s == DispS(st, es.imageWidth, es.imageHeight)
      ca == DispCA(st, es.imageWidth, es.imageHeight)
  IN [sv EXCEPT !.feDispMapR = s + ca, !.feDispMapG = s, !.feDispMapB = s - ca]

UpdateBlur(sv, st, es) ==
  [sv EXCEPT !.feGaussianBlur = st.blur * Max2(es.imageWidth, es.imageHeight)]

\* min(1, previewMax / max(W,H)) as a fraction
PreviewRatio(w, h) == Frac(Min2(CNV_MAX, Max2(w, h)), Max2(w, h))

\* setSoft's stdDeviation: value * (scalePct/100) * 10.5 * previewRatio
MapBlurStd(value, es) ==
  LET r == PreviewRatio(es.imageWidth, es.imageHeight)
  IN Frac(value * es.scalePct * BLUR_SOFTNESS_FACTOR_X2 * r.n, 200 * r.d)

\* An updateImageDimensions that recomputes on every call
AlwaysChanged(es, width, height) == TRUE

\* The guard of both updateImageDimensions methods: the early return is taken
\* unless a dimension differs from the stored one
DimensionsChanged(es, width, height) ==
  ~(es.imageWidth = width /\ es.imageHeight = height)

\* EffectStateManager.updateImageDimensions: <<engineState, svg, the
\* recomputations performed>>
EsmUpdateImageDimensions(es, sv, st, width, height) ==
  IF ~DimensionsChanged(es, width, height)
  THEN <<es, sv, {}>>
  ELSE LET es2 == [es EXCEPT !.imageWidth = width, !.imageHeight = height]
       IN <<es2, UpdateBlur(UpdateDisplacementScales(sv, st, es2), st, es2),
            {"updateDisplacementScales", "updateBlur"}>>

(***************************************************************************)
(* FilterRenderer                                                          *)
(***************************************************************************)
ReferenceImage(es) ==
  IF Len(es.layerImages) > 0 THEN es.layerImages[1].image ELSE es.mapImage

UpdateScaleCache(r, es) ==
  LET ref == ReferenceImage(es)
      imgMax == Max2(es.imageWidth, es.imageHeight)
  IN IF ref # Null
     THEN [r EXCEPT !.cachedImageMaxDimension = imgMax,
                    !.cachedMapMaxDimension = Max2(MapWidth(ref), MapHeight(ref)),
                    !.cachedBaseScale =
                       Frac(imgMax, Max2(MapWidth(ref), MapHeight(ref)))]
     ELSE [r EXCEPT !.cachedImageMaxDimension = IF imgMax = 0 THEN 1 ELSE imgMax,
                    !.cachedMapMaxDimension = 1,
                    !.cachedBaseScale = Frac(1, 1)]

\* FilterRenderer.updateImageDimensions: <<engineState, renderer, the
\* recomputations performed>>
RendUpdateImageDimensions(es, r, width, height) ==
  IF ~DimensionsChanged(es, width, height)
  THEN <<es, r, {}>>
  ELSE LET es2 == [es EXCEPT !.imageWidth = width, !.imageHeight = height]
       IN <<es2, UpdateScaleCache(r, es2), {"updateScaleCache"}>>

\* One drawLayer call: what is painted on the canvas
DrawLayer(layer, pct, ratio, base) ==
  [image |-> layer.image, tiling |-> layer.tiling, opacity |-> layer.opacity,
   mapScale |-> IF layer.tiling = "tiled"
                THEN Frac(pct * ratio.n * base.n, 100 * ratio.d * base.d)
                ELSE Frac(0, 1)]

\* The canvas after compositing the current map at the given ratio
Compose(es, r, w, h, ratio) ==
  [w |-> w, h |-> h,
   content |->
     IF Len(es.layerImages) > 0
     THEN [i \in 1..Len(es.layerImages) |->
             DrawLayer(es.layerImages[i],
                       IF es.layerImages[i].scale # 0
                       THEN es.layerImages[i].scale ELSE es.scalePct,
                       ratio, r.cachedBaseScale)]
     ELSE IF es.mapImage # Null
          THEN <<DrawLayer(Layer(es.mapImage, "tiled", 0, 100), es.scalePct,
                           ratio, r.cachedBaseScale)>>
          ELSE <<>>]

\* canvas.toDataURL('image/png'): determined by the canvas size and pixels
ToDataURL(canvas) == [k |-> "png", w |-> canvas.w, h |-> canvas.h,
                      content |-> canvas.content]

HasMap(es) == es.mapImage # Null \/ Len(es.layerImages) > 0

\* A counter that is read but not advanced
SameGeneration(r) == r.renderGeneration

\* ++this.renderGeneration
NextGeneration(r) == r.renderGeneration + 1

\* redrawMap: <<renderer, svg>>.  The canvas is encoded within the call, so
\* the generation read after toDataURL is the one this call has set.
RedrawMap(r, sv, es) ==
  IF ~HasMap(es) THEN <<r, sv>>
  ELSE
    LET myGeneration == NextGeneration(r)
        vb == sv.viewBox
        ratio == Frac(Min2(CNV_MAX, Max2(vb[1], vb[2])), Max2(vb[1], vb[2]))
        cnvW == Max2(1, Round(vb[1] * ratio.n, ratio.d))
        cnvH == Max2(1, Round(vb[2] * ratio.n, ratio.d))
        cnv == Compose(es, r, cnvW, cnvH, ratio)
        url == ToDataURL(cnv)
        defer == r.deferReflectForNextRedraw
                   \/ r.pendingReflectTextureUpdate # NoHref
        drawn == [r EXCEPT !.renderGeneration = myGeneration, !.canvas = cnv]
    IN IF myGeneration # drawn.renderGeneration THEN <<drawn, sv>>
       ELSE <<[drawn EXCEPT
                 !.pendingReflectTextureUpdate = IF defer THEN url ELSE @,
                 !.deferReflectForNextRedraw = IF defer THEN FALSE ELSE @],
              [sv EXCEPT !.feImgHref = url, !.feImgSize = vb]>>

\* A debounce that lets a pending timer run on instead of restarting it
LeadingDebounce(t, isFlush) ==
  [rem |-> IF t.rem >= 0 THEN t.rem ELSE DEBOUNCE_DELAY,
   flush |-> isFlush \/ (t.rem >= 0 /\ t.flush),
   postponed |-> ~isFlush /\ (t.postponed \/ (t.rem >= 0 /\ t.flush)),
   burst |-> IF t.rem >= 0 THEN t.burst + 1 ELSE 1]

\* The function debounce() returns: clear the timer, schedule a new one.
\* flush, postponed and burst are history: a flush request rides on the
\* timer; since the last flush call, a timer carrying it was cleared and
\* started again; the number of calls since the callback last ran.
Debounced(t, isFlush) ==
  [rem |-> DEBOUNCE_DELAY,
   flush |-> isFlush \/ (t.rem >= 0 /\ t.flush),
   postponed |-> ~isFlush /\ (t.postponed \/ (t.rem >= 0 /\ t.flush)),
   burst |-> IF t.rem >= 0 THEN t.burst + 1 ELSE 1]

\* FilterRenderer.triggerUpdate
TriggerUpdate(t, r) == IF r.isBatchMode THEN t ELSE Debounced(t, FALSE)

\* FilterRenderer.setMapImage: <<engineState, renderer, timer>>
SetMapImage(es, r, t, img) ==
  LET es2 == [es EXCEPT !.mapImage = img]
  IN IF img # Null
     THEN <<es2, UpdateScaleCache(r, es2), TriggerUpdate(t, UpdateScaleCache(r, es2))>>
     ELSE <<es2, r, t>>

(***************************************************************************)
(* ReflectEffect                                                           *)
(***************************************************************************)
Clamp100(v) == Max2(0, Min2(100, v))

UpdateEffect(rf) ==
  [rf EXCEPT !.opacityTable = rf.opacity,
             !.mergeIn = IF rf.opacity > 0 THEN "reflectedResult"
                         ELSE "clippedResult"]

ReflectSetOpacity(rf, v) ==
  IF rf.isBatchMode
  THEN [rf EXCEPT !.pendingOpacityUpdate = Clamp100(v)]
  ELSE UpdateEffect([rf EXCEPT !.opacity = Clamp100(v)])

\* contrastTable holds the sharpness the LUT was computed from
ReflectSetSharpness(rf, v) ==
  IF rf.isBatchMode
  THEN [rf EXCEPT !.pendingSharpnessUpdate = Clamp100(v)]
  ELSE [rf EXCEPT !.sharpness = Clamp100(v), !.contrastTable = Clamp100(v)]

ReflectSetBatchMode(rf, enabled) ==
  LET rf1 == [rf EXCEPT !.isBatchMode = enabled]
      rf2 == IF ~enabled /\ rf1.pendingOpacityUpdate # -1
             THEN UpdateEffect([rf1 EXCEPT !.opacity = rf1.pendingOpacityUpdate,
                                           !.pendingOpacityUpdate = -1])
             ELSE rf1
  IN IF ~enabled /\ rf2.pendingSharpnessUpdate # -1
     THEN [rf2 EXCEPT !.sharpness = rf2.pendingSharpnessUpdate,
                      !.pendingSharpnessUpdate = -1]
     ELSE rf2

ReflectTriggerBatchUpdate(rf) ==
  LET rf1 == IF rf.pendingOpacityUpdate # -1
             THEN [rf EXCEPT !.opacity = rf.pendingOpacityUpdate,
                             !.pendingOpacityUpdate = -1]
             ELSE rf
      rf2 == IF rf1.pendingSharpnessUpdate # -1
             THEN [rf1 EXCEPT !.sharpness = rf1.pendingSharpnessUpdate,
                              !.contrastTable = rf1.pendingSharpnessUpdate,
                              !.pendingSharpnessUpdate = -1]
             ELSE rf1
  IN UpdateEffect(rf2)

(***************************************************************************)
(* Initial state: initDisplacementEngine has returned                      *)
(***************************************************************************)
InitialMargin == Round(INITIAL_SIZE * FILTER_MARGIN_PERCENT, 100)

\* settled is history: the position of the call among the settled loadMap
\* promises; api is the state of the promise the engine API returned.
IdleMapLoad == [pc |-> "idle", src |-> [kind |-> "none"], via |-> "none",
                key |-> Null, need |-> {}, failed |-> FALSE,
                outcome |-> "none", result |-> Null, api |-> "none",
                settled |-> 0, url |-> Null, exhausted |-> FALSE]
\* hit: processImageForPreview answered from imageCache; image: the buffer
\* the data URLs of its result were made from; applied is history
IdleSrcLoad == [pc |-> "idle", bytes |-> "empty", hit |-> FALSE,
                image |-> "empty",
                failed |-> FALSE, outcome |-> "none", applied |-> FALSE]
\* feImgBefore, feSourceBefore, genBefore, srcBefore and count are history:
\* the hrefs, the recompute count and the applied source when the call was made
IdleExport == [pc |-> "idle", originalFeImgHref |-> NoHref,
               previewTexture |-> NoHref, originalTextureSwapped |-> FALSE,
               feImgBefore |-> NoHref, feSourceBefore |-> NoHref,
               genBefore |-> 0, srcBefore |-> 0,
               outcome |-> "none", count |-> 0,
               renderCanvas |-> <<300, 150>>]

\* A call of performBatchedShuffle: its preset's map and its random values
IdlePerform == [pc |-> "idle", src |-> [kind |-> "none"], values |-> <<>>]

\* Everything but the decoded-image cache, which is static: it is shared with
\* the engine instances made before this one
\* The element tree createSVGTemplate() writes into the container
CreateSVGTemplate ==
  [feImgHref |-> NoHref, feImgSize |-> <<INITIAL_SIZE, INITIAL_SIZE>>,
   feSourceImgHref |-> EmptyHref,
   feSourceImgRect |-> <<0, INITIAL_SIZE, INITIAL_SIZE>>,
   viewBox |-> <<INITIAL_SIZE, INITIAL_SIZE>>,
   filterRegion |-> <<-InitialMargin, INITIAL_SIZE + 2 * InitialMargin,
                      INITIAL_SIZE + 2 * InitialMargin>>,
   outputRect |-> <<INITIAL_SIZE, INITIAL_SIZE>>,
   maskRect |-> <<INITIAL_SIZE, INITIAL_SIZE>>,
   feDispMapR |-> 0, feDispMapG |-> 0, feDispMapB |-> 0,
   feGaussianBlur |-> 0, feMapGaussianBlur |-> Frac(0, 1),
   feDispMapDissolve |-> 0]

(***************************************************************************)
(* ThumbnailRenderer: the scheduler of the gallery's thumbnail renders     *)
(***************************************************************************)
\* A renderPresetThumbnail call: pc is "idle" (not made), "queued" (its task
\* was pushed on pending), "running" (fn is awaiting something), "loading"
\* and "snapshot" (the awaits of the render function), or "finished";
\* promise is the state of the promise schedule() returned; snapshot is the
\* graph the render serialized and applied is what the target element shows.
IdleThumb ==
  [pc |-> "idle", preset |-> "", startGen |-> 0, promise |-> "none",
   snapshot |-> <<>>, applied |-> <<>>]

\* new ThumbnailRenderer() where navigator.hardwareConcurrency is hw
\* (0 when the browser does not report it)
ThumbnailRenderer(hw) ==
  [generation |-> 0,
   maxConcurrent |-> Max2(4, Min2(8, IF hw = 0 THEN 6 ELSE hw)),
   inFlight |-> 0, pending |-> <<>>, cache |-> {},
   tasks |-> [i \in 1..MaxThumbs |-> IdleThumb]]

\* task(): inFlight++, then fn() runs up to its first await, having read
\* the generation
StartTask(th, i) ==
  [th EXCEPT !.inFlight = @ + 1, !.tasks[i].pc = "running",
             !.tasks[i].startGen = th.generation]

\* schedule(fn) for call i: run the task at once or push it on pending
Schedule(th, i, p) ==
  LET t == [th EXCEPT !.tasks[i].preset = p, !.tasks[i].promise = "pending",
                      !.tasks[i].pc = "queued"]
  IN IF th.inFlight < th.maxConcurrent THEN StartTask(t, i)
     ELSE [t EXCEPT !.pending = Append(@, i)]

\* A drain that starts every pending task
RECURSIVE DrainAll(_)
DrainAll(th) ==
  IF th.pending # <<>>
  THEN DrainAll(StartTask([th EXCEPT !.pending = Tail(@)], Head(th.pending)))
  ELSE th

\* drain(): start pending tasks while there is room
RECURSIVE Drain(_)
Drain(th) ==
  IF th.inFlight < th.maxConcurrent /\ th.pending # <<>>
  THEN Drain(StartTask([th EXCEPT !.pending = Tail(@)], Head(th.pending)))
  ELSE th

\* The end of task i: fn has settled with the given outcome, the promise of
\* schedule() settles with it, then the finally block runs
TaskFinally(th, i, outcome) ==
  Drain([th EXCEPT !.tasks[i].promise = outcome, !.tasks[i].pc = "finished",
                   !.inFlight = @ - 1])

\* bumpGeneration()
BumpGeneration(th) ==
  [th EXCEPT !.generation = @ + 1, !.cache = {}, !.pending = <<>>]

\* The history of a session in which nothing has been called yet
InitHist ==
  [op |-> "init", id |-> 0, calls |-> 0, flushPending |-> FALSE,
   flushServed |-> FALSE, srcApplied |-> 0,
   touched |-> layerImageCache,
   decoding |-> [u \in {} |-> 0],
   recomputed |-> {}, prior |-> <<>>, code |-> <<>>,
   error |-> Null,
   tiles |-> [pending |-> FALSE, args |-> <<>>, drawn |-> {}],
   sharpInBatch |-> -1]

InitEngineState ==
  /\ settings = [strength |-> 0, chromaticAberration |-> 0, blur |-> 0,
                 soft |-> 0, scale |-> DEFAULT_SCALE]
  /\ engineState = [imageWidth |-> INITIAL_SIZE, imageHeight |-> INITIAL_SIZE,
                    mapImage |-> Null, layerImages |-> <<>>,
                    scalePct |-> DEFAULT_SCALE, currentMapLoadingUrl |-> Null]
  /\ svg = CreateSVGTemplate
  /\ renderer = [isBatchMode |-> FALSE,
                 pendingReflectTextureUpdate |-> NoHref,
                 deferReflectForNextRedraw |-> FALSE,
                 cachedBaseScale |-> Frac(1, 1),
                 cachedImageMaxDimension |-> 0, cachedMapMaxDimension |-> 0,
                 renderGeneration |-> 0,
                 canvas |-> [w |-> 300, h |-> 150, content |-> <<>>]]
  /\ timer = [rem |-> -1, flush |-> FALSE, postponed |-> FALSE, burst |-> 0]
  /\ reflect = [opacity |-> 0, sharpness |-> DEFAULT_SHARPNESS,
                isBatchMode |-> FALSE, isFinalBatchUpdate |-> FALSE,
                pendingOpacityUpdate |-> -1, pendingSharpnessUpdate |-> -1,
                opacityTable |-> 0, mergeIn |-> "clippedResult",
                contrastTable |-> -1, softBlur |-> Frac(0, 1)]
  /\ loader = [currentImageId |-> 0, originalMirroredDataUrl |-> NoHref]
  /\ inflightLoads = [u \in {} |-> <<>>]
  /\ mapLoads = [i \in 1..MaxMapLoads |-> IdleMapLoad]
  /\ srcLoads = [i \in 1..MaxSrcLoads |-> IdleSrcLoad]
  /\ export = IdleExport
  /\ microtasks = <<>>
  /\ app = [isShuffling |-> FALSE, shuffleTimeoutId |-> -1,
            finalTimeouts |-> <<>>,
            sliders |-> [isInBatchMode |-> FALSE, pendingValue |-> {}],
            perform |-> [i \in 1..MaxMapLoads |-> IdlePerform],
            elapsed |-> 0,
            hasSelectedImage |-> FALSE, applyDisabled |-> TRUE,
            controlsDisabled |-> TRUE,
            selection |-> [i \in 1..MaxSrcLoads |-> "idle"]]

\* A freshly constructed engine
InitEngine ==
  /\ InitEngineState
  /\ hist = InitHist

\* resourceManager after initialize() with the given resources listed
FreshResources(listed) ==
  [manifest |-> listed, cache |-> {}, loading |-> [id \in {} |-> 0]]

\* The first engine instance of the page: nothing is cached yet
Init ==
  /\ layerImageCache = <<>>
  /\ imageCache = <<>>
  /\ resources = FreshResources({"r1"})
  /\ thumbs = ThumbnailRenderer(6)
  /\ InitEngine

\* History: the step just taken was op (of load id); API calls are counted
Did(op, id) == [hist EXCEPT !.op = op, !.id = id]
Called(op, id) == [hist EXCEPT !.op = op, !.id = id, !.calls = @ + 1]
\* Steps that are event callbacks: the continuations they make ready run
\* before any other code
EventOps == {"timerFire", "tick", "fileRead", "decodeDone", "srcDecoded",
             "srcPreviewDecoded", "srcMeasured", "exportSvgLoaded",
             "exportEncoded"}

\* The application may call the API from its own code: when nothing is
\* running, or from the code or continuation that made the previous step
CanCall ==
  /\ hist.calls < MaxCalls
  /\ microtasks = <<>> \/ hist.op \notin EventOps

loadVars == <<layerImageCache, inflightLoads, mapLoads, microtasks>>
srcVars == <<loader, imageCache, srcLoads>>

(***************************************************************************)
(* Parameter setters of the engine API (initDisplacementEngine)            *)
(***************************************************************************)
\* redrawMap recomputes only with a map; the recompute counter is bounded
CanRedraw(es) == HasMap(es) => renderer.renderGeneration < MaxRenders

\* The state the setters and the scheduler work on, as one record, and the
\* step that leaves it as e
Engine == [settings |-> settings, engineState |-> engineState, svg |-> svg,
           renderer |-> renderer, timer |-> timer, reflect |-> reflect]
Becomes(e) ==
  /\ settings' = e.settings /\ engineState' = e.engineState /\ svg' = e.svg
  /\ renderer' = e.renderer /\ timer' = e.timer /\ reflect' = e.reflect

ApiSetStrength(e, v) ==
  LET st == [e.settings EXCEPT !.strength = v]
  IN [e EXCEPT !.settings = st,
               !.svg = UpdateDisplacementScales(e.svg, st, e.engineState)]

ApiSetChromaticAberration(e, v) ==
  LET st == [e.settings EXCEPT !.chromaticAberration = v]
  IN [e EXCEPT !.settings = st,
               !.svg = UpdateDisplacementScales(e.svg, st, e.engineState)]

ApiSetBlur(e, v) ==
  LET st == [e.settings EXCEPT !.blur = v]
  IN [e EXCEPT !.settings = st, !.svg = UpdateBlur(e.svg, st, e.engineState)]

ApiSetSoft(e, v) ==
  [e EXCEPT !.settings.soft = v,
            !.svg.feMapGaussianBlur = MapBlurStd(v, e.engineState),
            !.reflect.softBlur =
               Frac(v * e.engineState.scalePct * BLUR_SOFTNESS_FACTOR_X2, 200)]

\* setScale redraws at once, not through triggerUpdate
ApiSetScale(e, v) ==
  LET es == [e.engineState EXCEPT !.scalePct = v]
      rs == RedrawMap(e.renderer, e.svg, es)
  IN [e EXCEPT !.settings.scale = v, !.engineState = es,
               !.renderer = rs[1], !.svg = rs[2]]

ApiSetDissolveStrength(e, v) ==
  [e EXCEPT !.svg.feDispMapDissolve = v,
            !.timer = TriggerUpdate(e.timer, e.renderer)]

ApiSetReflectOpacity(e, v) ==
  [e EXCEPT !.reflect = ReflectSetOpacity(e.reflect, v),
            !.timer = TriggerUpdate(e.timer, e.renderer)]

ApiSetReflectSharpness(e, v) ==
  [e EXCEPT !.reflect = ReflectSetSharpness(e.reflect, v)]

SetStrength(v) ==
  /\ CanCall
  /\ Becomes(ApiSetStrength(Engine, v))
  /\ hist' = Called("setStrength", 0)
  /\ UNCHANGED <<export, loadVars, srcVars>>

SetChromaticAberration(v) ==
  /\ CanCall
  /\ Becomes(ApiSetChromaticAberration(Engine, v))
  /\ hist' = Called("setChromaticAberration", 0)
  /\ UNCHANGED <<export, loadVars, srcVars>>

SetBlur(v) ==
  /\ CanCall
  /\ Becomes(ApiSetBlur(Engine, v))
  /\ hist' = Called("setBlur", 0)
  /\ UNCHANGED <<export, loadVars, srcVars>>

SetSoft(v) ==
  /\ CanCall
  /\ Becomes(ApiSetSoft(Engine, v))
  /\ hist' = Called("setSoft", 0)
  /\ UNCHANGED <<export, loadVars, srcVars>>

SetScale(v) ==
  /\ CanCall
  /\ CanRedraw(engineState)
  /\ Becomes(ApiSetScale(Engine, v))
  /\ hist' = Called("setScale", 0)
  /\ UNCHANGED <<export, loadVars, srcVars>>

SetDissolveStrength(v) ==
  /\ CanCall
  /\ Becomes(ApiSetDissolveStrength(Engine, v))
  /\ hist' = Called("setDissolveStrength", 0)
  /\ UNCHANGED <<export, loadVars, srcVars>>

SetReflectOpacity(v) ==
  /\ CanCall
  /\ Becomes(ApiSetReflectOpacity(Engine, v))
  /\ hist' = Called("setReflectOpacity", 0)
  /\ UNCHANGED <<export, loadVars, srcVars>>

SetReflectSharpness(v) ==
  /\ CanCall
  /\ Becomes(ApiSetReflectSharpness(Engine, v))
  /\ hist' = [Called("setReflectSharpness", 0) EXCEPT
                !.sharpInBatch = IF reflect.isBatchMode THEN v ELSE -1]
  /\ UNCHANGED <<export, loadVars, srcVars>>

(***************************************************************************)
(* Render scheduler                                                        *)
(***************************************************************************)
\* FilterRenderer.setBatchMode
RendererSetBatchMode(r, enabled) ==
  [r EXCEPT !.isBatchMode = enabled,
            !.deferReflectForNextRedraw = IF enabled THEN TRUE ELSE @]

ApiSetBatchMode(e, enabled) ==
  [e EXCEPT !.renderer = RendererSetBatchMode(e.renderer, enabled),
            !.reflect = ReflectSetBatchMode(e.reflect, enabled)]

SetBatchMode(enabled) ==
  /\ CanCall
  /\ Becomes(ApiSetBatchMode(Engine, enabled))
  /\ hist' = Called(IF enabled THEN "setBatchModeOn" ELSE "setBatchModeOff", 0)
  /\ UNCHANGED <<export, loadVars, srcVars>>

FlushHonoursBatchMode(t, r) ==
  IF r.isBatchMode THEN t ELSE Debounced(t, TRUE)

\* FilterRenderer.triggerBatchUpdate: the timer it leaves behind
FlushTimer(t, r) == Debounced(t, TRUE)

ApiTriggerBatchUpdate(e) ==
  [e EXCEPT !.reflect = [ReflectTriggerBatchUpdate(e.reflect)
                           EXCEPT !.isFinalBatchUpdate = TRUE],
            !.renderer = [e.renderer EXCEPT
                            !.deferReflectForNextRedraw = FALSE,
                            !.pendingReflectTextureUpdate = NoHref],
            !.timer = FlushTimer(e.timer, e.renderer)]

TriggerBatchUpdate ==
  /\ CanCall
  /\ Becomes(ApiTriggerBatchUpdate(Engine))
  /\ hist' = [Called("triggerBatchUpdate", 0) EXCEPT !.flushPending = TRUE]
  /\ UNCHANGED <<export, loadVars, srcVars>>

\* updateCallback of initDisplacementEngine: <<engineState, renderer, svg>>
UpdateCallback(es, r, sv, st) ==
  LET a == EsmUpdateImageDimensions(es, sv, st, es.imageWidth, es.imageHeight)
      b == RendUpdateImageDimensions(a[1], r, a[1].imageWidth, a[1].imageHeight)
      c == RedrawMap(b[2], a[2], b[1])
  IN <<b[1], c[1], c[2]>>

\* The debounce timer expires and runs updateCallback
TimerFire ==
  /\ timer.rem = 0
  /\ microtasks = <<>>
  /\ CanRedraw(engineState)
  /\ LET u == UpdateCallback(engineState, renderer, svg, settings)
     IN engineState' = u[1] /\ renderer' = u[2] /\ svg' = u[3]
  /\ timer' = [timer EXCEPT !.rem = -1, !.flush = FALSE]
  /\ hist' = [Did("timerFire", 0) EXCEPT !.flushPending = FALSE,
                                         !.flushServed = hist.flushPending]
  /\ UNCHANGED <<settings, reflect, export>>
  /\ UNCHANGED <<loadVars, srcVars>>

\* Time passes, up to the next timer expiry
Tick ==
  /\ timer.rem > 0
  /\ microtasks = <<>>
  /\ timer' = [timer EXCEPT !.rem = @ - Min2(TickMs, @)]
  /\ hist' = Did("tick", 0)
  /\ UNCHANGED <<settings, engineState, svg, renderer, reflect, export>>
  /\ UNCHANGED <<loadVars, srcVars>>

(***************************************************************************)
(* Map loading: ImageLoader.loadMap / loadImageWithCache and the engine    *)
(* API's loadMap / loadMapAndWait around it                                *)
(***************************************************************************)
LayerSpec(src, tiling, scale) == [src |-> src, tiling |-> tiling, scale |-> scale]

MapSources ==
  {[kind |-> "url", url |-> u] : u \in Urls}
    \cup {[kind |-> "file", file |-> f] : f \in Files}
    \cup {[kind |-> "img", url |-> "u2"]}
    \cup {[kind |-> "multi",
           layers |-> <<LayerSpec("u1", "tiled", sc), LayerSpec("u2", "stretched", 0)>>]
            : sc \in {50, 80}}

Vias == {"loadMap", "loadMapAndWait"}

RECURSIVE JoinSrcs(_)
JoinSrcs(layers) ==
  IF Len(layers) = 0 THEN ""
  ELSE IF Len(layers) = 1 THEN layers[1].src
  ELSE layers[1].src \o "|" \o JoinSrcs(Tail(layers))

\* The race-guard key of a multi-layer request: its sources, not its parameters
MultiKey(layers) == "multi:" \o JoinSrcs(layers)

\* The URL the image of a single-source request is decoded from: the
\* request's URL, or what resolveResourceUrl made of it
ImageKey(m) == IF m.url # Null THEN m.url ELSE m.key

\* The request's string is still to go through the resource manager
NeedsResolving(m) ==
  m.src.kind = "url" /\ m.key \in ResourceUrls /\ m.url = Null

\* The URLs a request hands to the cache lookup of loadImageWithCache, in order
LoadKeys(m) ==
  IF m.src.kind = "multi"
  THEN [i \in 1..Len(m.src.layers) |-> m.src.layers[i].src]
  ELSE <<ImageKey(m)>>

\* layerImages built from the decoded images of a multi-layer request
MultiLayers(layers) ==
  [i \in 1..Len(layers) |->
     Layer(layers[i].src, layers[i].tiling, layers[i].scale, 100)]

RECURSIVE Without(_, _)
Without(seq, x) ==
  IF seq = <<>> THEN <<>>
  ELSE IF Head(seq) = x THEN Without(Tail(seq), x)
  ELSE <<Head(seq)>> \o Without(Tail(seq), x)

InSeq(seq, x) == \E i \in 1..Len(seq) : seq[i] = x

\* Map.prototype.set on the cache: a new key goes last, a key already present
\* keeps its place
MapSet(cache, k) == IF InSeq(cache, k) THEN cache ELSE Append(cache, k)

\* History of touches: the cached keys, least recently touched first, after
\* the keys of touches were requested (hit) or inserted, in that order
RECURSIVE TouchAll(_, _)
TouchAll(t, touches) ==
  IF touches = <<>> THEN t
  ELSE TouchAll(Append(Without(t, Head(touches)), Head(touches)), Tail(touches))
StillCached(t, cache) == SelectSeq(t, LAMBDA k : InSeq(cache, k))
Hits(keys, cache) == SelectSeq(keys, LAMBDA k : InSeq(cache, k))

\* An eviction that spares the oldest key and drops the next one
RECURSIVE EvictSecondOldest(_)
EvictSecondOldest(cache) ==
  IF Len(cache) > IMAGE_CACHE_MAX_SIZE
  THEN EvictSecondOldest(<<Head(cache)>> \o Tail(Tail(cache))) ELSE cache

\* evictLayerCacheIfNeeded: drop the oldest keys beyond the maximum
RECURSIVE EvictLayerCacheIfNeeded(_)
EvictLayerCacheIfNeeded(cache) ==
  IF Len(cache) > IMAGE_CACHE_MAX_SIZE
  THEN EvictLayerCacheIfNeeded(Tail(cache)) ELSE cache

NextSettled == Cardinality({j \in 1..MaxMapLoads : mapLoads[j].settled > 0}) + 1

\* A call of the engine's loadMap or loadMapAndWait with a non-null source,
\* made by code that leaves queue as the continuations ready to run
IssueMapLoadFrom(i, src, via, queue) ==
  /\ mapLoads[i].pc = "idle"
  /\ \A j \in 1..(i - 1) : mapLoads[j].pc # "idle"
  /\ LET m == [IdleMapLoad EXCEPT !.src = src, !.via = via]
     IN CASE src.kind = "img" ->
               /\ engineState' = [engineState EXCEPT
                                    !.layerImages = SingleLayer(src.url),
                                    !.mapImage = src.url,
                                    !.currentMapLoadingUrl = src.url]
               /\ mapLoads' = [mapLoads EXCEPT ![i] =
                                 [m EXCEPT !.pc = "wrap", !.key = src.url,
                                           !.outcome = "resolved",
                                           !.result = src.url,
                                           !.settled = NextSettled]]
               /\ microtasks' = Append(queue, <<"wrap", i>>)
          [] src.kind = "multi" ->
               /\ engineState' = [engineState EXCEPT
                                    !.currentMapLoadingUrl = MultiKey(src.layers)]
               /\ mapLoads' = [mapLoads EXCEPT ![i] =
                                 [m EXCEPT !.pc = "resolve",
                                           !.key = MultiKey(src.layers)]]
               /\ microtasks' = Append(queue, <<"resolve", i>>)
          [] src.kind = "url" ->
               /\ mapLoads' = [mapLoads EXCEPT ![i] =
                                 [m EXCEPT !.pc = "then", !.key = src.url]]
               /\ microtasks' = Append(queue, <<"then", i>>)
               /\ UNCHANGED engineState
          [] src.kind = "file" ->
               /\ mapLoads' = [mapLoads EXCEPT ![i] = [m EXCEPT !.pc = "reading"]]
               /\ microtasks' = queue
               /\ UNCHANGED engineState
  /\ hist' = Called(via, i)
  /\ UNCHANGED <<settings, svg, renderer, timer, reflect, export>>
  /\ UNCHANGED <<layerImageCache, inflightLoads, srcVars>>

IssueMapLoad(i, src, via) ==
  /\ CanCall
  /\ IssueMapLoadFrom(i, src, via, microtasks)

\* FileReader.onload of loadMap's File branch
FileRead(i) ==
  /\ mapLoads[i].pc = "reading"
  /\ microtasks = <<>>
  /\ mapLoads' = [mapLoads EXCEPT ![i].pc = "then",
                                  ![i].key = DataUrlOf(mapLoads[i].src.file)]
  /\ microtasks' = Append(microtasks, <<"then", i>>)
  /\ hist' = Did("fileRead", i)
  /\ UNCHANGED <<settings, engineState, svg, renderer, timer, reflect, export>>
  /\ UNCHANGED <<layerImageCache, inflightLoads, srcVars>>

\* The callback of urlPromise.then, up to its await
MapThen(i) ==
  /\ microtasks # <<>> /\ Head(microtasks) = <<"then", i>>
  /\ IF engineState.mapImage = mapLoads[i].key
     THEN /\ mapLoads' = [mapLoads EXCEPT ![i].pc = "wrap",
                                          ![i].outcome = "resolved",
                                          ![i].result = engineState.mapImage,
                                          ![i].settled = NextSettled]
          /\ microtasks' = Append(Tail(microtasks), <<"wrap", i>>)
          /\ UNCHANGED engineState
     ELSE /\ engineState' = [engineState EXCEPT
                               !.currentMapLoadingUrl = mapLoads[i].key]
          /\ mapLoads' = [mapLoads EXCEPT ![i].pc = "resolve"]
          /\ microtasks' = Append(Tail(microtasks), <<"resolve", i>>)
  /\ hist' = Did("mapThen", i)
  /\ UNCHANGED <<settings, svg, renderer, timer, reflect, export>>
  /\ UNCHANGED <<layerImageCache, inflightLoads, srcVars>>

\* History of decodes: how many Image elements are decoding each URL, after
\* new ones were made for the URLs of started / after one for u has finished
RECURSIVE Started(_, _)
Started(d, started) ==
  IF started = <<>> THEN d
  ELSE LET k == Head(started)
       IN Started([u \in DOMAIN d \cup {k} |->
                     (IF u \in DOMAIN d THEN d[u] ELSE 0)
                       + (IF u = k THEN 1 ELSE 0)],
                  Tail(started))
Finished(d, u) ==
  IF u \notin DOMAIN d THEN d
  ELSE IF d[u] = 1 THEN [k \in DOMAIN d \ {u} |-> d[k]]
  ELSE [d EXCEPT ![u] = @ - 1]

\* A lookup that never finds a load in flight
NeverInFlight(inflight, k) == FALSE

\* inflightLoads.get(key) finds a promise
InFlight(inflight, k) == k \in DOMAIN inflight

\* loadImageWithCache after the URL is resolved, for each URL of request i in
\* turn: a cached image is moved to the newest position, a load in flight is
\* joined, otherwise a new Image starts decoding.
\* <<layerImageCache, inflightLoads, URLs still awaited, URLs of new Images>>
RECURSIVE LoadImagesWithCache(_, _, _, _)
LoadImagesWithCache(keys, cache, inflight, i) ==
  IF keys = <<>> THEN <<cache, inflight, {}, <<>> >>
  ELSE
    LET k == Head(keys)
    IN IF InSeq(cache, k)
       THEN LoadImagesWithCache(Tail(keys), Append(Without(cache, k), k),
                                inflight, i)
       ELSE
         LET joins == InFlight(inflight, k)
             waiting == IF joins THEN inflight[k] ELSE <<>>
             inflight2 == [u \in DOMAIN inflight \cup {k} |->
                             IF u = k THEN Append(waiting, i) ELSE inflight[u]]
             rest == LoadImagesWithCache(Tail(keys), cache, inflight2, i)
         IN <<rest[1], rest[2], rest[3] \cup {k},
              (IF joins THEN <<>> ELSE <<k>>) \o rest[4]>>

MapResolve(i) ==
  /\ microtasks # <<>> /\ Head(microtasks) = <<"resolve", i>>
  /\ ~NeedsResolving(mapLoads[i])
  /\ LET r == LoadImagesWithCache(LoadKeys(mapLoads[i]), layerImageCache,
                                  inflightLoads, i)
     IN /\ layerImageCache' = r[1]
        /\ inflightLoads' = r[2]
        /\ IF r[3] = {}
           THEN /\ mapLoads' = [mapLoads EXCEPT ![i].pc = "cont"]
                /\ microtasks' = Append(Tail(microtasks), <<"cont", i>>)
           ELSE /\ mapLoads' = [mapLoads EXCEPT ![i].pc = "loading",
                                                ![i].need = r[3]]
                /\ microtasks' = Tail(microtasks)
  /\ hist' = [Did("mapResolve", i) EXCEPT
                !.touched =
                  StillCached(TouchAll(@, Hits(LoadKeys(mapLoads[i]), layerImageCache)),
                              layerImageCache'),
                !.decoding =
                  Started(@, LoadImagesWithCache(LoadKeys(mapLoads[i]),
                                                 layerImageCache, inflightLoads, i)[4])]
  /\ UNCHANGED <<settings, engineState, svg, renderer, timer, reflect, export>>
  /\ UNCHANGED srcVars

\* Continuations of the loads waiting for a resource, which is resolved to url
ResourceWoken(waiting) == [n \in 1..Len(waiting) |-> <<"resolve", waiting[n]>>]
ResourceSettled(loads, waiting, url, gaveUp) ==
  [j \in 1..MaxMapLoads |->
     IF InSeq(waiting, j)
     THEN [loads[j] EXCEPT !.pc = "resolve", !.url = url, !.exhausted = gaveUp]
     ELSE loads[j]]

\* loadImageWithCache of a resource:// string up to its first wait:
\* resolveResourceUrl over resourceManager.loadResource. A load of the
\* resource in progress is joined, a cached resource is returned, a resource
\* the manifest cannot resolve throws and is replaced by the fallback
\* texture; otherwise the first fetch starts. (Cache entries expire after 24
\* hours, longer than the behaviours here.)
ResolveResource(i) ==
  /\ microtasks # <<>> /\ Head(microtasks) = <<"resolve", i>>
  /\ NeedsResolving(mapLoads[i])
  /\ LET id == ResourceId(mapLoads[i].key)
     IN CASE id \in DOMAIN resources.loading ->
               /\ resources' = [resources EXCEPT
                                  !.loading[id].waiting = Append(@, i)]
               /\ mapLoads' = [mapLoads EXCEPT ![i].pc = "fetching"]
               /\ microtasks' = Tail(microtasks)
          [] id \notin DOMAIN resources.loading /\ id \in resources.cache ->
               /\ mapLoads' = [mapLoads EXCEPT ![i].url = ResourceData(id)]
               /\ microtasks' = Append(Tail(microtasks), <<"resolve", i>>)
               /\ UNCHANGED resources
          [] id \notin DOMAIN resources.loading /\ id \notin resources.cache
               /\ id \notin resources.manifest ->
               /\ mapLoads' = [mapLoads EXCEPT ![i].url = FallbackTexture]
               /\ microtasks' = Append(Tail(microtasks), <<"resolve", i>>)
               /\ UNCHANGED resources
          [] OTHER ->
               /\ resources' = [resources EXCEPT !.loading =
                    [k \in DOMAIN @ \cup {id} |->
                       IF k = id
                       THEN [waiting |-> <<i>>, attempt |-> 0, pc |-> "fetch"]
                       ELSE @[k]]]
               /\ mapLoads' = [mapLoads EXCEPT ![i].pc = "fetching"]
               /\ microtasks' = Tail(microtasks)
  /\ hist' = Did("resolveResource", i)
  /\ UNCHANGED <<settings, engineState, svg, renderer, timer, reflect, export>>
  /\ UNCHANGED <<layerImageCache, inflightLoads, srcVars, app, thumbs>>

\* The fetch of loadResourceInternal's current attempt settles. With a good
\* response the data URL is cached and returned. A failure before the last
\* attempt starts the backoff delay; a failure of the last attempt throws,
\* and resolveResourceUrl's catch returns the fallback texture.
FetchSettled(id, ok) ==
  /\ microtasks = <<>>
  /\ id \in DOMAIN resources.loading
  /\ resources.loading[id].pc = "fetch"
  /\ LET l == resources.loading[id]
         others == [k \in DOMAIN resources.loading \ {id} |->
                      resources.loading[k]]
     IN IF ok
        THEN /\ resources' = [resources EXCEPT !.cache = @ \cup {id},
                                               !.loading = others]
             /\ mapLoads' = ResourceSettled(mapLoads, l.waiting,
                                            ResourceData(id), FALSE)
             /\ microtasks' = ResourceWoken(l.waiting)
        ELSE IF l.attempt < MAX_RETRIES - 1
        THEN /\ resources' = [resources EXCEPT !.loading[id].pc = "delay"]
             /\ UNCHANGED <<mapLoads, microtasks>>
        ELSE /\ resources' = [resources EXCEPT !.loading = others]
             /\ mapLoads' = ResourceSettled(mapLoads, l.waiting,
                                            FallbackTexture, TRUE)
             /\ microtasks' = ResourceWoken(l.waiting)
  /\ hist' = Did("fetchSettled", 0)
  /\ UNCHANGED <<settings, engineState, svg, renderer, timer, reflect, export>>
  /\ UNCHANGED <<layerImageCache, inflightLoads, srcVars, app, thumbs>>

\* The backoff delay of loadResourceInternal expires: the next attempt
RetryDelay(id) ==
  /\ microtasks = <<>>
  /\ id \in DOMAIN resources.loading
  /\ resources.loading[id].pc = "delay"
  /\ resources' = [resources EXCEPT !.loading[id].pc = "fetch",
                                    !.loading[id].attempt = @ + 1]
  /\ hist' = Did("retryDelay", 0)
  /\ UNCHANGED <<settings, engineState, svg, renderer, timer, reflect, export>>
  /\ UNCHANGED <<loadVars, srcVars, app, thumbs>>

\* Requests whose awaited promise settles when URL u has loaded or failed
RECURSIVE Woken(_, _, _)
Woken(waiting, u, ok) ==
  IF waiting = <<>> THEN <<>>
  ELSE LET w == Head(waiting)
           wakes == w # 0 /\ mapLoads[w].pc = "loading"
                      /\ (~ok \/ mapLoads[w].need = {u})
       IN (IF wakes THEN <<(<<"cont", w>>)>> ELSE <<>>)
            \o Woken(Tail(waiting), u, ok)

\* img.onload / img.onerror of the Image loadImageWithCache created for u
DecodeDone(u) ==
  /\ u \in DOMAIN inflightLoads
  /\ microtasks = <<>>
  /\ inflightLoads' = [k \in DOMAIN inflightLoads \ {u} |-> inflightLoads[k]]
  /\ layerImageCache' =
       IF Decodable(u)
       THEN EvictLayerCacheIfNeeded(MapSet(layerImageCache, u))
       ELSE layerImageCache
  /\ mapLoads' = [j \in 1..MaxMapLoads |->
       IF InSeq(inflightLoads[u], j) /\ mapLoads[j].pc = "loading"
       THEN [mapLoads[j] EXCEPT
               !.need = @ \ {u},
               !.failed = ~Decodable(u),
               !.pc = IF ~Decodable(u) \/ mapLoads[j].need = {u}
                      THEN "cont" ELSE @]
       ELSE mapLoads[j]]
  /\ microtasks' = Woken(inflightLoads[u], u, Decodable(u))
  /\ hist' = [Did("decodeDone", 0) EXCEPT
                !.touched =
                  StillCached(IF Decodable(u) THEN TouchAll(@, <<u>>) ELSE @,
                              layerImageCache'),
                !.decoding = Finished(@, u)]
  /\ UNCHANGED <<settings, engineState, svg, renderer, timer, reflect, export>>
  /\ UNCHANGED srcVars

\* prefetchMapSources over ImageLoader.prefetch: loadImageWithCache is called
\* for every source and each call stops at its first await
PrefetchSources ==
  {<<PrefetchUrls[n]>> : n \in 1..Len(PrefetchUrls)} \cup {<<"c11", "c12">>}

\* A prefetch that installs the image it loaded as the map
PrefetchApplies(es, k) ==
  [es EXCEPT !.mapImage = k, !.currentMapLoadingUrl = Null]

\* ImageLoader.prefetch: what loadImageWithCache returns for k is dropped,
\* the engine state is not written
Prefetched(es, k) == es

PrefetchMapSources(sources) ==
  /\ CanCall
  /\ microtasks' = microtasks \o
       [n \in 1..Len(sources) |-> <<"prefetch", UrlIndex(sources[n])>>]
  /\ hist' = Called("prefetchMapSources", 0)
  /\ UNCHANGED <<settings, engineState, svg, renderer, timer, reflect, export>>
  /\ UNCHANGED <<layerImageCache, inflightLoads, mapLoads, srcVars>>

\* loadImageWithCache of a prefetch after its URL is resolved; the prefetch
\* waits as request 0 and does nothing when the image arrives
PrefetchResolve ==
  /\ microtasks # <<>> /\ Head(microtasks)[1] = "prefetch"
  /\ LET k == PrefetchUrls[Head(microtasks)[2]]
         r == LoadImagesWithCache(<<k>>, layerImageCache, inflightLoads, 0)
     IN /\ layerImageCache' = r[1]
        /\ inflightLoads' = r[2]
        /\ hist' = [Did("prefetchResolve", 0) EXCEPT
                      !.touched =
                        StillCached(TouchAll(@, Hits(<<k>>, layerImageCache)),
                                    layerImageCache'),
                      !.decoding = Started(@, r[4])]
        /\ engineState' = Prefetched(engineState, k)
  /\ microtasks' = Tail(microtasks)
  /\ UNCHANGED <<settings, svg, renderer, timer, reflect, export>>
  /\ UNCHANGED <<mapLoads, srcVars>>

\* loadMap after its await: race guard, then the state is written (or, for a
\* failed single URL, the catch block runs); the loadMap promise settles
MapCont(i) ==
  /\ microtasks # <<>> /\ Head(microtasks) = <<"cont", i>>
  /\ LET m == mapLoads[i]
         current == engineState.currentMapLoadingUrl = m.key
         applied ==
           IF m.src.kind = "multi"
           THEN [engineState EXCEPT
                   !.layerImages = MultiLayers(m.src.layers),
                   !.mapImage = m.src.layers[1].src,
                   !.currentMapLoadingUrl = Null]
           ELSE [engineState EXCEPT
                   !.layerImages = SingleLayer(ImageKey(m)),
                   !.mapImage = ImageKey(m)]
         caught == [engineState EXCEPT !.mapImage = Null,
                                       !.currentMapLoadingUrl = Null]
     IN /\ engineState' =
             IF m.failed
             THEN IF m.src.kind # "multi" /\ current THEN caught ELSE engineState
             ELSE IF current THEN applied ELSE engineState
        /\ mapLoads' = [mapLoads EXCEPT ![i] =
             [m EXCEPT
                !.pc = "wrap",
                !.outcome = IF m.failed THEN "rejected" ELSE "resolved",
                !.result = IF m.failed THEN Null
                           ELSE IF current THEN engineState'.mapImage
                           ELSE IF m.src.kind = "multi" THEN engineState.mapImage
                           ELSE Null,
                !.settled = NextSettled]]
  /\ microtasks' = Append(Tail(microtasks), <<"wrap", i>>)
  /\ hist' = Did("mapCont", i)
  /\ UNCHANGED <<settings, svg, renderer, timer, reflect, export>>
  /\ UNCHANGED <<layerImageCache, inflightLoads, srcVars>>

\* The promise loadMapAndWait returns, given how loadMap's promise settled
LoadMapAndWaitOutcome(outcome) == "resolved"

\* The engine API's reaction: setMapImage for an image, the error is logged
\* (loadMap) or turned into null (loadMapAndWait)
MapWrap(i) ==
  /\ microtasks # <<>> /\ Head(microtasks) = <<"wrap", i>>
  /\ LET m == mapLoads[i]
         s == IF m.outcome = "resolved" /\ m.result # Null
              THEN SetMapImage(engineState, renderer, timer, m.result)
              ELSE <<engineState, renderer, timer>>
     IN /\ engineState' = s[1] /\ renderer' = s[2] /\ timer' = s[3]
        /\ mapLoads' = [mapLoads EXCEPT
             ![i].pc = "done",
             ![i].api = IF m.via = "loadMapAndWait"
                        THEN LoadMapAndWaitOutcome(m.outcome) ELSE "none"]
  /\ microtasks' = Tail(microtasks)
  /\ hist' = Did("mapWrap", i)
  /\ UNCHANGED <<settings, svg, reflect, export>>
  /\ UNCHANGED <<layerImageCache, inflightLoads, srcVars>>

(***************************************************************************)
(* Source loading: ImageLoader.loadSourceFromBytes over                    *)
(* processImageForPreview, and the engine API's loadSourceFromBytes        *)
(***************************************************************************)
\* The decimal digits of a byte, and Array.from(bytes).join('')
RECURSIVE Digits(_)
Digits(n) == IF n < 10 THEN <<n>> ELSE Append(Digits(n \div 10), n % 10)
RECURSIVE JoinBytes(_)
JoinBytes(bytes) ==
  IF bytes = <<>> THEN <<>> ELSE Digits(Head(bytes)) \o JoinBytes(Tail(bytes))

\* createCacheKey of the buffer b: its length, slice(0, 32) and slice(-32)
\* joined without separators
CreateCacheKey(b) ==
  LET bytes == Content(b)
  IN <<Len(bytes),
       JoinBytes(SubSeq(bytes, 1, Min2(32, Len(bytes)))),
       JoinBytes(SubSeq(bytes, Max2(1, Len(bytes) - 31), Len(bytes)))>>

\* imageCache.get(cacheKey): the entries with that key (one at most)
ImageCacheGet(cache, k) == SelectSeq(cache, LAMBDA e : e.key = k)

\* createMirroredTexture of the decoded image: its data URL
OriginalMirrored(b) ==
  [k |-> "mirrored", bytes |-> b, w |-> SrcWidth(b), h |-> SrcHeight(b),
   pad |-> Round(Max2(SrcWidth(b), SrcHeight(b)) * 2, 10)]

IsOptimized(b) ==
  ENABLE_PREVIEW_OPTIMIZATION
    /\ Max2(SrcWidth(b), SrcHeight(b)) > PREVIEW_MAX_SIZE

\* resizeImageForPreview: the size of the preview image
ResizeForPreview(w, h) ==
  IF w <= PREVIEW_MAX_SIZE /\ h <= PREVIEW_MAX_SIZE THEN <<w, h>>
  ELSE IF w > h THEN <<PREVIEW_MAX_SIZE, Round(PREVIEW_MAX_SIZE * h, w)>>
  ELSE <<Round(PREVIEW_MAX_SIZE * w, h), PREVIEW_MAX_SIZE>>

\* previewMirroredDataUrl of processImageForPreview's result
PreviewMirrored(b, hit) ==
  IF hit \/ ~IsOptimized(b) THEN OriginalMirrored(b)
  ELSE LET sz == ResizeForPreview(SrcWidth(b), SrcHeight(b))
       IN [k |-> "mirrored", bytes |-> b, w |-> sz[1], h |-> sz[2],
           pad |-> Round(Max2(sz[1], sz[2]) * 2, 10)]

AlwaysCurrent(ld, i) == TRUE

\* The race guard of loadSourceFromBytes
IsCurrentImage(ld, i) == ld.currentImageId = i

\* cleanCache, the TTL of the n oldest entries having passed: they are
\* deleted, then the oldest of those above the maximum size
CleanCache(cache, n) ==
  LET fresh == SubSeq(cache, n + 1, Len(cache))
  IN IF Len(fresh) > IMAGE_CACHE_MAX_SIZE
     THEN SubSeq(fresh, Len(fresh) - IMAGE_CACHE_MAX_SIZE + 1, Len(fresh))
     ELSE fresh

\* imageCache.set with the current time as timestamp: the entry holds the
\* data URLs made from the buffer b
ImageCacheSet(cache, b) ==
  Append(SelectSeq(cache, LAMBDA e : e.key # CreateCacheKey(b)),
         [key |-> CreateCacheKey(b), image |-> b])

\* A call of the engine's loadSourceFromBytes.  Empty data throws before a
\* token is assigned; processImageForPreview starts with cleanCache.
IssueSrcLoad(i, b) ==
  /\ CanCall
  /\ srcLoads[i].pc = "idle"
  /\ \A j \in 1..(i - 1) : srcLoads[j].pc # "idle"
  /\ IF b = "empty"
     THEN /\ srcLoads' = [srcLoads EXCEPT ![i] =
                [IdleSrcLoad EXCEPT !.pc = "done", !.bytes = b,
                                    !.failed = TRUE, !.outcome = "rejected"]]
          /\ UNCHANGED <<loader, imageCache, microtasks>>
     ELSE /\ loader' = [loader EXCEPT !.currentImageId = i]
          /\ \E n \in 0..Len(imageCache) :
               /\ imageCache' = CleanCache(imageCache, n)
               /\ IF ImageCacheGet(imageCache', CreateCacheKey(b)) # <<>>
                  THEN /\ srcLoads' = [srcLoads EXCEPT ![i] =
                            [IdleSrcLoad EXCEPT
                               !.pc = "processed", !.bytes = b, !.hit = TRUE,
                               !.image =
                                  ImageCacheGet(imageCache', CreateCacheKey(b))[1].image]]
                       /\ microtasks' = Append(microtasks, <<"srcProcessed", i>>)
                  ELSE /\ srcLoads' = [srcLoads EXCEPT ![i] =
                            [IdleSrcLoad EXCEPT !.pc = "decoding", !.bytes = b,
                                                !.image = b]]
                       /\ UNCHANGED microtasks
  /\ hist' = Called("loadSourceFromBytes", i)
  /\ UNCHANGED <<settings, engineState, svg, renderer, timer, reflect, export>>
  /\ UNCHANGED <<layerImageCache, inflightLoads, mapLoads>>

\* img.onload / img.onerror in processImageForPreview
SrcDecoded(i) ==
  /\ srcLoads[i].pc = "decoding"
  /\ microtasks = <<>>
  /\ LET b == srcLoads[i].bytes
     IN IF ~SrcDecodable(b)
        THEN /\ srcLoads' = [srcLoads EXCEPT ![i].pc = "processed",
                                             ![i].failed = TRUE]
             /\ microtasks' = Append(microtasks, <<"srcProcessed", i>>)
             /\ UNCHANGED imageCache
        ELSE IF IsOptimized(b)
        THEN /\ srcLoads' = [srcLoads EXCEPT ![i].pc = "previewDecoding"]
             /\ UNCHANGED <<imageCache, microtasks>>
        ELSE /\ srcLoads' = [srcLoads EXCEPT ![i].pc = "processed"]
             /\ imageCache' = ImageCacheSet(imageCache, b)
             /\ microtasks' = Append(microtasks, <<"srcProcessed", i>>)
  /\ hist' = Did("srcDecoded", i)
  /\ UNCHANGED <<settings, engineState, svg, renderer, timer, reflect, export>>
  /\ UNCHANGED <<loader, layerImageCache, inflightLoads, mapLoads>>

\* previewImg.onload in processImageForPreview
SrcPreviewDecoded(i) ==
  /\ srcLoads[i].pc = "previewDecoding"
  /\ microtasks = <<>>
  /\ srcLoads' = [srcLoads EXCEPT ![i].pc = "processed"]
  /\ imageCache' = ImageCacheSet(imageCache, srcLoads[i].bytes)
  /\ microtasks' = Append(microtasks, <<"srcProcessed", i>>)
  /\ hist' = Did("srcPreviewDecoded", i)
  /\ UNCHANGED <<settings, engineState, svg, renderer, timer, reflect, export>>
  /\ UNCHANGED <<loader, layerImageCache, inflightLoads, mapLoads>>

\* loadSourceFromBytes after await processImageForPreview
SrcProcessed(i) ==
  /\ microtasks # <<>> /\ Head(microtasks) = <<"srcProcessed", i>>
  /\ IF srcLoads[i].failed
     THEN /\ srcLoads' = [srcLoads EXCEPT ![i].pc = "done",
                                          ![i].outcome = "rejected"]
          /\ microtasks' = Tail(microtasks)
     ELSE IF ~IsCurrentImage(loader, i)
     THEN /\ srcLoads' = [srcLoads EXCEPT ![i].pc = "wrap"]
          /\ microtasks' = Append(Tail(microtasks), <<"srcWrap", i>>)
     ELSE /\ srcLoads' = [srcLoads EXCEPT ![i].pc = "measuring"]
          /\ microtasks' = Tail(microtasks)
  /\ hist' = Did("srcProcessed", i)
  /\ UNCHANGED <<settings, engineState, svg, renderer, timer, reflect, export>>
  /\ UNCHANGED <<loader, imageCache, layerImageCache, inflightLoads, mapLoads>>

\* onload of the Image createImageFromDataUrl made from originalDataUrl
SrcMeasured(i) ==
  /\ srcLoads[i].pc = "measuring"
  /\ microtasks = <<>>
  /\ srcLoads' = [srcLoads EXCEPT ![i].pc = "apply"]
  /\ microtasks' = Append(microtasks, <<"srcApply", i>>)
  /\ hist' = Did("srcMeasured", i)
  /\ UNCHANGED <<settings, engineState, svg, renderer, timer, reflect, export>>
  /\ UNCHANGED <<loader, imageCache, layerImageCache, inflightLoads, mapLoads>>

\* The filter graph and engine state after loadSourceFromBytes applied the
\* image of size w x h with the given preview texture: <<svg, engineState>>
ApplySource(sv, es, texture, w, h) ==
  LET margin == Round(Max2(w, h) * FILTER_MARGIN_PERCENT, 100)
  IN <<[sv EXCEPT !.feSourceImgHref = texture,
                  !.feSourceImgRect = <<-margin, w + 2 * margin, h + 2 * margin>>,
                  !.viewBox = <<w, h>>,
                  !.filterRegion = <<-margin, w + 2 * margin, h + 2 * margin>>,
                  !.outputRect = <<w, h>>,
                  !.maskRect = <<w, h>>],
       [es EXCEPT !.imageWidth = w, !.imageHeight = h]>>

\* loadSourceFromBytes after await createImageFromDataUrl
SrcApply(i) ==
  /\ microtasks # <<>> /\ Head(microtasks) = <<"srcApply", i>>
  /\ LET b == srcLoads[i].image
         a == ApplySource(svg, engineState, PreviewMirrored(b, srcLoads[i].hit),
                          SrcWidth(b), SrcHeight(b))
     IN IF IsCurrentImage(loader, i)
        THEN /\ svg' = a[1] /\ engineState' = a[2]
             /\ loader' = [loader EXCEPT
                             !.originalMirroredDataUrl = OriginalMirrored(b)]
             /\ srcLoads' = [srcLoads EXCEPT ![i].pc = "wrap",
                                             ![i].applied = TRUE]
             /\ hist' = [Did("srcApply", i) EXCEPT !.srcApplied = i]
        ELSE /\ srcLoads' = [srcLoads EXCEPT ![i].pc = "wrap"]
             /\ hist' = Did("srcApply", i)
             /\ UNCHANGED <<svg, engineState, loader>>
  /\ microtasks' = Append(Tail(microtasks), <<"srcWrap", i>>)
  /\ UNCHANGED <<settings, renderer, timer, reflect, export>>
  /\ UNCHANGED <<imageCache, layerImageCache, inflightLoads, mapLoads>>

\* The engine API's loadSourceFromBytes after its await: both
\* updateImageDimensions, then triggerUpdate
SrcWrap(i) ==
  /\ microtasks # <<>> /\ Head(microtasks) = <<"srcWrap", i>>
  /\ LET a == EsmUpdateImageDimensions(engineState, svg, settings,
                 engineState.imageWidth, engineState.imageHeight)
         b == RendUpdateImageDimensions(a[1], renderer,
                 a[1].imageWidth, a[1].imageHeight)
     IN /\ engineState' = b[1] /\ svg' = a[2] /\ renderer' = b[2]
        /\ timer' = TriggerUpdate(timer, b[2])
  /\ srcLoads' = [srcLoads EXCEPT ![i].pc = "done", ![i].outcome = "resolved"]
  /\ microtasks' = Tail(microtasks)
  /\ hist' = Did("srcWrap", i)
  /\ UNCHANGED <<settings, reflect, export>>
  /\ UNCHANGED <<loader, imageCache, layerImageCache, inflightLoads, mapLoads>>

\* Source loading with the parameter setters whose attributes depend on the
\* image size, and the debounce timer
NextSrc ==
  \/ \E i \in 1..MaxSrcLoads : \E b \in Bytes : IssueSrcLoad(i, b) /\ UNCHANGED <<app, resources, thumbs>>
  \/ \E i \in 1..MaxSrcLoads : SrcDecoded(i) /\ UNCHANGED <<app, resources, thumbs>>
  \/ \E i \in 1..MaxSrcLoads : SrcPreviewDecoded(i) /\ UNCHANGED <<app, resources, thumbs>>
  \/ \E i \in 1..MaxSrcLoads : SrcProcessed(i) /\ UNCHANGED <<app, resources, thumbs>>
  \/ \E i \in 1..MaxSrcLoads : SrcMeasured(i) /\ UNCHANGED <<app, resources, thumbs>>
  \/ \E i \in 1..MaxSrcLoads : SrcApply(i) /\ UNCHANGED <<app, resources, thumbs>>
  \/ \E i \in 1..MaxSrcLoads : SrcWrap(i) /\ UNCHANGED <<app, resources, thumbs>>
  \/ \E v \in StrengthValues : SetStrength(v) /\ UNCHANGED <<app, resources, thumbs>>
  \/ \E v \in ChromaticValues : SetChromaticAberration(v) /\ UNCHANGED <<app, resources, thumbs>>
  \/ \E v \in BlurValues : SetBlur(v) /\ UNCHANGED <<app, resources, thumbs>>
  \/ TimerFire /\ UNCHANGED <<app, resources, thumbs>>
  \/ Tick /\ UNCHANGED <<app, resources, thumbs>>

SpecSrc == Init /\ [][NextSrc]_vars

\* Source loading of two buffers that differ in the middle only
NextCacheKey ==
  \/ \E i \in 1..MaxSrcLoads : \E b \in CollidingBytes : IssueSrcLoad(i, b) /\ UNCHANGED <<app, resources, thumbs>>
  \/ \E i \in 1..MaxSrcLoads : SrcDecoded(i) /\ UNCHANGED <<app, resources, thumbs>>
  \/ \E i \in 1..MaxSrcLoads : SrcPreviewDecoded(i) /\ UNCHANGED <<app, resources, thumbs>>
  \/ \E i \in 1..MaxSrcLoads : SrcProcessed(i) /\ UNCHANGED <<app, resources, thumbs>>
  \/ \E i \in 1..MaxSrcLoads : SrcMeasured(i) /\ UNCHANGED <<app, resources, thumbs>>
  \/ \E i \in 1..MaxSrcLoads : SrcApply(i) /\ UNCHANGED <<app, resources, thumbs>>
  \/ \E i \in 1..MaxSrcLoads : SrcWrap(i) /\ UNCHANGED <<app, resources, thumbs>>
  \/ TimerFire /\ UNCHANGED <<app, resources, thumbs>>
  \/ Tick /\ UNCHANGED <<app, resources, thumbs>>

SpecCacheKey == Init /\ [][NextCacheKey]_vars

(***************************************************************************)
(* Export: the engine API's getImageBytes over FilterRenderer.renderToBytes*)
(***************************************************************************)
\* inlineDisplacementTextureForExport
InlineDisplacementTexture(sv, r) == [sv EXCEPT !.feImgHref = ToDataURL(r.canvas)]

\* prepareHighResFeImgForExport: <<renderer, svg>>
PrepareHighResFeImg(r, sv, es) ==
  IF es.mapImage = Null
  THEN <<r, [sv EXCEPT !.feImgHref = ToDataURL(r.canvas)]>>
  ELSE LET fullW == Max2(1, sv.viewBox[1])
           fullH == Max2(1, sv.viewBox[2])
           cnv == Compose(es, r, fullW, fullH, Frac(1, 1))
       IN <<[r EXCEPT !.canvas = cnv],
            [sv EXCEPT !.feImgSize = <<fullW, fullH>>,
                       !.feImgHref = ToDataURL(cnv)]>>

\* A renderToBytes that keeps the viewBox size
ViewBoxSize(vb) == vb

FracMin(a, b) == IF a.n * b.d <= b.n * a.d THEN a ELSE b

\* renderToBytes: <<finalWidth, finalHeight>> of the render canvas for the
\* viewBox vb; Math.round is rounding half up, the products being exact
RenderSize(vb) ==
  LET maxScale == FracMin(Frac(FIGMA_ABSOLUTE_LIMIT, vb[1]),
                          Frac(FIGMA_ABSOLUTE_LIMIT, vb[2]))
      scaleFactor == FracMin(maxScale, Frac(1, 1))
  IN <<Max2(1, Round(vb[1] * scaleFactor.n, scaleFactor.d)),
       Max2(1, Round(vb[2] * scaleFactor.n, scaleFactor.d))>>

\* A string or null taken as a condition
Truthy(href) == href # NoHref /\ href # EmptyHref

\* renderToBytes swaps in the original texture for the render
SwapsTexture(ld, sv) ==
  /\ ~MATCH_PREVIEW_ON_EXPORT
  /\ Truthy(ld.originalMirroredDataUrl) /\ Truthy(sv.feSourceImgHref)
  /\ ld.originalMirroredDataUrl # sv.feSourceImgHref

\* getImageBytes up to renderToBytes' first await
ExportCall ==
  /\ CanCall
  /\ export.pc \in {"idle", "settled"}
  /\ export.count < MaxExports
  /\ LET inlined == InlineDisplacementTexture(svg, renderer)
         p == PrepareHighResFeImg(renderer, inlined, engineState)
         swap == SwapsTexture(loader, svg)
     IN /\ renderer' = p[1]
        /\ svg' = IF swap
                  THEN [p[2] EXCEPT !.feSourceImgHref = loader.originalMirroredDataUrl]
                  ELSE p[2]
        /\ export' = [pc |-> "loadingSvg",
                      originalFeImgHref |-> inlined.feImgHref,
                      previewTexture |-> svg.feSourceImgHref,
                      originalTextureSwapped |-> swap,
                      feImgBefore |-> svg.feImgHref,
                      feSourceBefore |-> svg.feSourceImgHref,
                      genBefore |-> renderer.renderGeneration,
                      srcBefore |-> hist.srcApplied,
                      outcome |-> "none", count |-> export.count + 1,
                      renderCanvas |-> RenderSize(svg.viewBox)]
  /\ hist' = Called("getImageBytes", 0)
  /\ UNCHANGED <<settings, engineState, timer, reflect>>
  /\ UNCHANGED <<loadVars, srcVars>>

\* image.onload / image.onerror of the serialized SVG (loadImageFromUrl)
ExportSvgLoaded(ok) ==
  /\ export.pc = "loadingSvg"
  /\ microtasks = <<>>
  /\ export' = [export EXCEPT !.pc = IF ok THEN "svgLoaded" ELSE "failed"]
  /\ microtasks' = Append(microtasks, <<"exportCont", 0>>)
  /\ hist' = Did("exportSvgLoaded", 0)
  /\ UNCHANGED <<settings, engineState, svg, renderer, timer, reflect>>
  /\ UNCHANGED <<layerImageCache, inflightLoads, mapLoads, srcVars>>

\* renderToBytes after the SVG image loaded: draw it, start canvas.toBlob
ExportDraw ==
  /\ microtasks # <<>> /\ Head(microtasks) = <<"exportCont", 0>>
  /\ export.pc = "svgLoaded"
  /\ export' = [export EXCEPT !.pc = "encoding"]
  /\ microtasks' = Tail(microtasks)
  /\ hist' = Did("exportDraw", 0)
  /\ UNCHANGED <<settings, engineState, svg, renderer, timer, reflect>>
  /\ UNCHANGED <<layerImageCache, inflightLoads, mapLoads, srcVars>>

\* The toBlob callback and the FileReader of canvasToUint8Array
ExportEncoded(ok) ==
  /\ export.pc = "encoding"
  /\ microtasks = <<>>
  /\ export' = [export EXCEPT !.pc = IF ok THEN "encoded" ELSE "failed"]
  /\ microtasks' = Append(microtasks, <<"exportCont", 0>>)
  /\ hist' = Did("exportEncoded", 0)
  /\ UNCHANGED <<settings, engineState, svg, renderer, timer, reflect>>
  /\ UNCHANGED <<layerImageCache, inflightLoads, mapLoads, srcVars>>

\* The finally block of renderToBytes: what it restores in the filter graph
RestoreAfterExport(sv, ex) ==
  LET sv1 == IF ex.originalFeImgHref # NoHref
             THEN [sv EXCEPT !.feImgHref = ex.originalFeImgHref] ELSE sv
  IN IF ex.originalTextureSwapped /\ Truthy(ex.previewTexture)
     THEN [sv1 EXCEPT !.feSourceImgHref = ex.previewTexture] ELSE sv1

\* renderToBytes returns or throws: the finally block, the promise settles
ExportSettle ==
  /\ microtasks # <<>> /\ Head(microtasks) = <<"exportCont", 0>>
  /\ export.pc \in {"encoded", "failed"}
  /\ svg' = RestoreAfterExport(svg, export)
  /\ export' = [export EXCEPT
                  !.pc = "settled",
                  !.outcome = IF export.pc = "encoded" THEN "resolved"
                              ELSE "rejected"]
  /\ microtasks' = Tail(microtasks)
  /\ hist' = Did("exportSettle", 0)
  /\ UNCHANGED <<settings, engineState, renderer, timer, reflect>>
  /\ UNCHANGED <<layerImageCache, inflightLoads, mapLoads, srcVars>>

(***************************************************************************)
(* updateImageDimensions of the two managers, called with given values     *)
(***************************************************************************)
DimOps == {"effects.updateImageDimensions", "renderer.updateImageDimensions"}

\* History of a call: what it recomputed, and, when the step before it was
\* the same method with the same values, what that call had recomputed
Recomputing(op, k, done) ==
  [Called(op, k) EXCEPT
     !.recomputed = done,
     !.prior = IF hist.op = op /\ hist.id = k THEN <<hist.recomputed>> ELSE <<>>]

EffectsUpdateImageDimensions(k) ==
  /\ CanCall
  /\ LET a == EsmUpdateImageDimensions(engineState, svg, settings,
                                       DimValues[k][1], DimValues[k][2])
     IN /\ engineState' = a[1]
        /\ svg' = a[2]
        /\ hist' = Recomputing("effects.updateImageDimensions", k, a[3])
  /\ UNCHANGED <<settings, renderer, timer, reflect, export, loadVars, srcVars>>

RendererUpdateImageDimensions(k) ==
  /\ CanCall
  /\ LET b == RendUpdateImageDimensions(engineState, renderer,
                                        DimValues[k][1], DimValues[k][2])
     IN /\ engineState' = b[1]
        /\ renderer' = b[2]
        /\ hist' = Recomputing("renderer.updateImageDimensions", k, b[3])
  /\ UNCHANGED <<settings, svg, timer, reflect, export, loadVars, srcVars>>

(***************************************************************************)
(* SVGExporter.exportSVGCode: the literals of the exported markup, in the  *)
(* units of the live graph's attributes                                    *)
(***************************************************************************)
\* An exporter that derives the literals from the current image size
ImageMaxDim(es) == Max2(es.imageWidth, es.imageHeight)

\* maxDim of the export: the content image is taken to be 1024 x 1024
ExportMaxDim(es) == Max2(EXPORT_SIZE, EXPORT_SIZE)

DefaultMapUrl == "https://i.ibb.co/SnTJTWJ/07-Wave.png"

ExportSVGCode(st, es, sv) ==
  LET maxDim == ExportMaxDim(es)
      s == st.strength * maxDim * STRENGTH_FACTOR
      ca == st.strength * st.chromaticAberration * maxDim
  IN [mapUrl |-> IF es.mapImage # Null THEN es.mapImage ELSE DefaultMapUrl,
      dispScaleR |-> s + ca, dispScaleG |-> s, dispScaleB |-> s - ca,
      blurStdDev |-> st.blur * maxDim,
      softStdDev |-> Frac(st.soft * es.scalePct * BLUR_SOFTNESS_FACTOR_X2, 200),
      dissolve |-> sv.feDispMapDissolve,
      tileSize |-> Max2(1, Round(es.scalePct * maxDim, 100)),
      pluginStrength |-> st.strength,
      pluginChromatic |-> st.chromaticAberration,
      pluginBlur |-> st.blur, pluginSoft |-> st.soft,
      pluginScalePct |-> es.scalePct]

\* The engine API's exportSVGCode; the history keeps what it returned
ExportSVGCodeCall ==
  /\ CanCall
  /\ hist' = [Called("exportSVGCode", 0) EXCEPT
                !.code = <<ExportSVGCode(settings, engineState, svg)>>]
  /\ UNCHANGED <<settings, engineState, svg, renderer, timer, reflect, export>>
  /\ UNCHANGED <<loadVars, srcVars>>

(***************************************************************************)
(* clear and getCurrentEffectSettings of the engine API                    *)
(***************************************************************************)
\* ImageLoader.clear: <<svg, engineState, loader>>
LoaderClear(sv, es, ld) ==
  <<[sv EXCEPT !.feSourceImgHref = EmptyHref,
               !.viewBox = <<INITIAL_SIZE, INITIAL_SIZE>>,
               !.outputRect = <<INITIAL_SIZE, INITIAL_SIZE>>,
               !.maskRect = <<INITIAL_SIZE, INITIAL_SIZE>>],
    [es EXCEPT !.imageWidth = INITIAL_SIZE, !.imageHeight = INITIAL_SIZE,
               !.mapImage = Null, !.currentMapLoadingUrl = Null],
    [ld EXCEPT !.originalMirroredDataUrl = NoHref, !.currentImageId = 0]>>

DefaultSettings == [strength |-> 0, chromaticAberration |-> 0, blur |-> 0,
                    soft |-> 0, scale |-> DEFAULT_SCALE]

\* EffectStateManager.clear: the graph it leaves, the settings being reset
EsmClear(sv, es) ==
  [UpdateBlur(UpdateDisplacementScales(sv, DefaultSettings, es),
              DefaultSettings, es)
     EXCEPT !.feDispMapDissolve = 0]

Clear ==
  /\ CanCall
  /\ LET c == LoaderClear(svg, engineState, loader)
     IN /\ engineState' = c[2]
        /\ loader' = c[3]
        /\ svg' = EsmClear(c[1], c[2])
  /\ settings' = DefaultSettings
  /\ hist' = Called("clear", 0)
  /\ UNCHANGED <<renderer, timer, reflect, export>>
  /\ UNCHANGED <<loadVars, imageCache, srcLoads>>

\* What getCurrentEffectSettings returns
GetCurrentEffectSettings ==
  [strength |-> settings.strength,
   chromaticAberration |-> settings.chromaticAberration,
   blur |-> settings.blur, soft |-> settings.soft,
   scale |-> engineState.scalePct,
   dissolveStrength |-> svg.feDispMapDissolve]

(***************************************************************************)
(* The App's shuffle: randomize, performBatchedShuffle, the recovery       *)
(* timeout and the sliders the random values are written through           *)
(***************************************************************************)
\* The presets' maps and the results of generateRandomizedValues, as the
\* sliders they name with their values, in the order updateSliders visits them
PresetMaps == {[kind |-> "url", url |-> "u1"], [kind |-> "url", url |-> "u2"]}
RandomizedValues ==
  {<<(<<"strength", 100>>), (<<"scale", 50>>), (<<"noise", 5>>)>>,
   <<(<<"soft", 1>>), (<<"reflectOpacity", 30>>)>>}

\* The onValueChange callbacks initControls gives the sliders
OnValueChange(e, key, v) ==
  CASE key = "strength" -> ApiSetStrength(e, v)
    [] key = "scale" -> ApiSetScale(e, v)
    [] key = "soft" -> ApiSetSoft(e, v)
    [] key = "chromatic" -> ApiSetChromaticAberration(e, v)
    [] key = "blur" -> ApiSetBlur(e, v)
    [] key = "noise" -> ApiSetDissolveStrength(e, v)
    [] key = "reflectOpacity" -> ApiSetReflectOpacity(e, v)
    [] key = "reflectSharpness" -> ApiSetReflectSharpness(e, v)

\* updateSliders: setValue on each slider named; <<sliders, engine>>
RECURSIVE UpdateSliders(_, _, _)
UpdateSliders(sl, e, values) ==
  IF values = <<>> THEN <<sl, e>>
  ELSE LET key == Head(values)[1]
           v == Head(values)[2]
       IN UpdateSliders(
            IF sl.isInBatchMode
            THEN [sl EXCEPT !.pendingValue = @ \cup {key}] ELSE sl,
            OnValueChange(e, key, v), Tail(values))

\* startShuffleOperation: <<app, engine>>; elapsed is history, the time
\* since the shuffle lock was taken
StartShuffleOperation(a, e) ==
  <<[a EXCEPT !.isShuffling = TRUE,
              !.sliders.isInBatchMode = TRUE,
              !.shuffleTimeoutId = SHUFFLE_TIMEOUT_MS,
              !.elapsed = 0],
    ApiSetBatchMode(e, TRUE)>>

\* An end of the shuffle that leaves the engine in batch mode
EndShuffleKeepsBatch(a, e) ==
  <<[a EXCEPT !.isShuffling = FALSE,
              !.sliders = [isInBatchMode |-> FALSE, pendingValue |-> {}],
              !.finalTimeouts = Append(@, FINAL_RENDER_DELAY),
              !.shuffleTimeoutId = -1],
    e>>

\* endShuffleOperation: <<app, engine>>
EndShuffleOperation(a, e) ==
  <<[a EXCEPT !.isShuffling = FALSE,
              !.sliders = [isInBatchMode |-> FALSE, pendingValue |-> {}],
              !.finalTimeouts = Append(@, FINAL_RENDER_DELAY),
              !.shuffleTimeoutId = -1],
    ApiSetBatchMode(e, FALSE)>>

\* The continuation of performBatchedShuffle i after loadMapAndWait is ready
ShuffleReady(i) == app.perform[i].pc = "loading" /\ mapLoads[i].pc = "done"
NoShuffleReady == \A i \in 1..MaxMapLoads : ~ShuffleReady(i)

\* A click on the shuffle button: randomize, and performBatchedShuffle up to
\* its import of utils/maps
Randomize(i, src, values) ==
  /\ microtasks = <<>> /\ NoShuffleReady
  /\ hist.calls + 1 < MaxCalls
  /\ ~app.isShuffling
  /\ app.perform[i].pc = "idle"
  /\ \A j \in 1..(i - 1) : app.perform[j].pc # "idle"
  /\ LET s == StartShuffleOperation(app, Engine)
     IN /\ app' = [s[1] EXCEPT !.perform[i] =
                     [pc |-> "importing", src |-> src, values |-> values]]
        /\ Becomes(s[2])
  /\ microtasks' = Append(microtasks, <<"imported", i>>)
  /\ hist' = Called("randomize", i)
  /\ UNCHANGED <<export, layerImageCache, inflightLoads, mapLoads, srcVars>>

\* performBatchedShuffle after the import: the call of loadMapAndWait
ShuffleImported(i) ==
  /\ microtasks # <<>> /\ Head(microtasks) = <<"imported", i>>
  /\ IssueMapLoadFrom(i, app.perform[i].src, "loadMapAndWait", Tail(microtasks))
  /\ app' = [app EXCEPT !.perform[i].pc = "loading"]

\* performBatchedShuffle after loadMapAndWait: updateSliders, then
\* endShuffleOperation
ShuffleLoaded(i) ==
  /\ microtasks = <<>> /\ ShuffleReady(i)
  /\ CanRedraw(engineState)
  /\ LET u == UpdateSliders(app.sliders, Engine, app.perform[i].values)
         d == EndShuffleOperation([app EXCEPT !.sliders = u[1]], u[2])
     IN /\ app' = [d[1] EXCEPT !.perform[i].pc = "done"]
        /\ Becomes(d[2])
  /\ hist' = Did("shuffleLoaded", i)
  /\ UNCHANGED <<export, loadVars, srcVars>>

\* The recovery timeout expires
ShuffleTimeout ==
  /\ microtasks = <<>> /\ NoShuffleReady
  /\ app.shuffleTimeoutId = 0
  /\ LET d == EndShuffleOperation(app, Engine)
     IN app' = d[1] /\ Becomes(d[2])
  /\ hist' = Did("shuffleTimeout", 0)
  /\ UNCHANGED <<export, loadVars, srcVars>>

\* The timeout endShuffleOperation has set expires: triggerBatchUpdate
FinalRender ==
  /\ microtasks = <<>> /\ NoShuffleReady
  /\ app.finalTimeouts # <<>> /\ Head(app.finalTimeouts) = 0
  /\ app' = [app EXCEPT !.finalTimeouts = Tail(@)]
  /\ Becomes(ApiTriggerBatchUpdate(Engine))
  /\ hist' = [Did("finalRender", 0) EXCEPT !.flushPending = TRUE]
  /\ UNCHANGED <<export, loadVars, srcVars>>

\* The times left on the timers that are running
TimesLeft ==
  {app.finalTimeouts[n] : n \in 1..Len(app.finalTimeouts)}
    \cup (IF app.shuffleTimeoutId >= 0 THEN {app.shuffleTimeoutId} ELSE {})
    \cup (IF timer.rem >= 0 THEN {timer.rem} ELSE {})

\* Time passes, up to the next expiry of any timer
AppTick ==
  /\ microtasks = <<>> /\ NoShuffleReady
  /\ TimesLeft # {} /\ 0 \notin TimesLeft
  /\ LET d == CHOOSE x \in TimesLeft : \A y \in TimesLeft : x <= y
     IN /\ timer' = IF timer.rem >= 0 THEN [timer EXCEPT !.rem = @ - d] ELSE timer
        /\ app' = [app EXCEPT
             !.shuffleTimeoutId = IF @ >= 0 THEN @ - d ELSE @,
             !.finalTimeouts = [n \in 1..Len(@) |-> @[n] - d],
             !.elapsed = IF app.isShuffling THEN @ + d ELSE @]
  /\ hist' = Did("tick", 0)
  /\ UNCHANGED <<settings, engineState, svg, renderer, reflect, export>>
  /\ UNCHANGED <<loadVars, srcVars>>

(***************************************************************************)
(* Specifications                                                          *)
(***************************************************************************)
BitmapMap == [kind |-> "img", url |-> "u2"]

\* The render scheduler: setters, batch mode, flush and the debounce timer,
\* with a pre-decoded map image loaded at some point
NextBatch ==
  \/ \E v \in StrengthValues : SetStrength(v) /\ UNCHANGED <<app, resources, thumbs>>
  \/ \E v \in ChromaticValues : SetChromaticAberration(v) /\ UNCHANGED <<app, resources, thumbs>>
  \/ \E v \in BlurValues : SetBlur(v) /\ UNCHANGED <<app, resources, thumbs>>
  \/ \E v \in SoftValues : SetSoft(v) /\ UNCHANGED <<app, resources, thumbs>>
  \/ \E v \in ScaleValues : SetScale(v) /\ UNCHANGED <<app, resources, thumbs>>
  \/ \E v \in DissolveValues : SetDissolveStrength(v) /\ UNCHANGED <<app, resources, thumbs>>
  \/ \E v \in OpacityValues : SetReflectOpacity(v) /\ UNCHANGED <<app, resources, thumbs>>
  \/ \E v \in SharpnessValues : SetReflectSharpness(v) /\ UNCHANGED <<app, resources, thumbs>>
  \/ \E b \in BOOLEAN : SetBatchMode(b) /\ UNCHANGED <<app, resources, thumbs>>
  \/ TriggerBatchUpdate /\ UNCHANGED <<app, resources, thumbs>>
  \/ TimerFire /\ UNCHANGED <<app, resources, thumbs>>
  \/ Tick /\ UNCHANGED <<app, resources, thumbs>>
  \/ IssueMapLoad(1, BitmapMap, "loadMap") /\ UNCHANGED <<app, resources, thumbs>>
  \/ MapWrap(1) /\ UNCHANGED <<app, resources, thumbs>>

SpecBatch == Init /\ [][NextBatch]_vars

\* Map loading from every kind of source, through both API operations
NextMap ==
  \/ \E i \in 1..MaxMapLoads : \E src \in MapSources : \E via \in Vias :
       IssueMapLoad(i, src, via) /\ UNCHANGED <<app, resources, thumbs>>
  \/ \E i \in 1..MaxMapLoads : FileRead(i) /\ UNCHANGED <<app, resources, thumbs>>
  \/ \E i \in 1..MaxMapLoads : MapThen(i) /\ UNCHANGED <<app, resources, thumbs>>
  \/ \E i \in 1..MaxMapLoads : MapResolve(i) /\ UNCHANGED <<app, resources, thumbs>>
  \/ \E u \in Keys : DecodeDone(u) /\ UNCHANGED <<app, resources, thumbs>>
  \/ \E i \in 1..MaxMapLoads : MapCont(i) /\ UNCHANGED <<app, resources, thumbs>>
  \/ \E i \in 1..MaxMapLoads : MapWrap(i) /\ UNCHANGED <<app, resources, thumbs>>

SpecMap == Init /\ [][NextMap]_vars

\* The parameter setters and clear, with a pre-decoded map image loaded at
\* some point
NextSettings ==
  \/ \E v \in StrengthValues : SetStrength(v) /\ UNCHANGED <<app, resources, thumbs>>
  \/ \E v \in ChromaticValues : SetChromaticAberration(v) /\ UNCHANGED <<app, resources, thumbs>>
  \/ \E v \in BlurValues : SetBlur(v) /\ UNCHANGED <<app, resources, thumbs>>
  \/ \E v \in SoftValues : SetSoft(v) /\ UNCHANGED <<app, resources, thumbs>>
  \/ \E v \in ScaleValues : SetScale(v) /\ UNCHANGED <<app, resources, thumbs>>
  \/ \E v \in DissolveValues : SetDissolveStrength(v) /\ UNCHANGED <<app, resources, thumbs>>
  \/ Clear /\ UNCHANGED <<app, resources, thumbs>>
  \/ IssueMapLoad(1, BitmapMap, "loadMap") /\ UNCHANGED <<app, resources, thumbs>>
  \/ MapWrap(1) /\ UNCHANGED <<app, resources, thumbs>>
  \/ TimerFire /\ UNCHANGED <<app, resources, thumbs>>
  \/ Tick /\ UNCHANGED <<app, resources, thumbs>>

SpecSettings == Init /\ [][NextSettings]_vars

\* error.message of the guard of initializeSVG
AlreadyInitialized == "Displacement engine already initialized on this element"

\* initializeSVG without its guard
InitializeSVGUnguarded(container) ==
  [threw |-> Null, container |-> <<CreateSVGTemplate>>]

\* initializeSVG on a container given as the sequence of its #svgRoot
\* elements: throws when there is one, writes the template otherwise
InitializeSVG(container) ==
  IF Len(container) > 0
  THEN [threw |-> AlreadyInitialized, container |-> container]
  ELSE [threw |-> Null, container |-> <<CreateSVGTemplate>>]

\* initDisplacementEngine(container) called again on the container this
\* engine lives in. initializeSVG is its first statement: when it throws,
\* nothing else of the function runs. (The state of a second engine object
\* is not part of this model.)
InitDisplacementEngine ==
  /\ CanCall
  /\ LET r == InitializeSVG(<<svg>>)
     IN /\ svg' = r.container[1]
        /\ hist' = [Called("initDisplacementEngine", 0) EXCEPT !.error = r.threw]
  /\ UNCHANGED <<settings, engineState, renderer, timer, reflect, export,
                 loadVars, srcVars>>

\* A second initialisation attempted at any time between the setters
NextInit ==
  \/ NextSettings
  \/ InitDisplacementEngine /\ UNCHANGED <<app, resources, thumbs>>

SpecInit == Init /\ [][NextInit]_vars

(***************************************************************************)
(* The application's handlers of Figma's selection messages                *)
(***************************************************************************)
\* The continuation of the selection-updated handler of load i is ready
SelectionReady(i) == app.selection[i] = "loading" /\ srcLoads[i].pc = "done"
NoSelectionReady == \A i \in 1..MaxSrcLoads : ~SelectionReady(i)

\* selection-updated, up to its await: setControlsEnabled(true) and the
\* call of loadSourceFromBytes
SelectionUpdated(i, b) ==
  /\ microtasks = <<>> /\ NoSelectionReady
  /\ IssueSrcLoad(i, b)
  /\ app' = [app EXCEPT !.controlsDisabled = FALSE, !.applyDisabled = FALSE,
                        !.selection[i] = "loading"]
  /\ UNCHANGED <<resources, thumbs>>

\* selection-updated after loadSourceFromBytes has settled: the gallery's
\* listener of thumbnail:rerender bumps the generation, then
\* hasSelectedImage and updateUIMode; or the catch block
SelectionLoaded(i) ==
  /\ microtasks = <<>> /\ SelectionReady(i)
  /\ IF srcLoads[i].outcome = "resolved"
     THEN /\ app' = [app EXCEPT !.hasSelectedImage = TRUE,
                                !.applyDisabled = FALSE,
                                !.selection[i] = "done"]
          /\ thumbs' = BumpGeneration(thumbs)
     ELSE /\ app' = [app EXCEPT !.hasSelectedImage = FALSE,
                                !.controlsDisabled = TRUE,
                                !.applyDisabled = TRUE,
                                !.selection[i] = "done"]
          /\ UNCHANGED thumbs
  /\ hist' = Did("selectionLoaded", i)
  /\ UNCHANGED <<settings, engineState, svg, renderer, timer, reflect, export,
                 loadVars, srcVars, resources>>

\* selection-cleared: engine.clear(), then the UI is disabled
SelectionCleared ==
  /\ microtasks = <<>> /\ NoSelectionReady
  /\ Clear
  /\ app' = [app EXCEPT !.hasSelectedImage = FALSE, !.controlsDisabled = TRUE,
                        !.applyDisabled = TRUE]
  /\ UNCHANGED <<resources, thumbs>>

NextSelection ==
  \/ \E i \in 1..MaxSrcLoads : \E b \in Bytes : SelectionUpdated(i, b)
  \/ \E i \in 1..MaxSrcLoads : SelectionLoaded(i)
  \/ SelectionCleared
  \/ \E i \in 1..MaxSrcLoads : NoSelectionReady /\ SrcDecoded(i) /\ UNCHANGED <<app, resources, thumbs>>
  \/ \E i \in 1..MaxSrcLoads : NoSelectionReady /\ SrcPreviewDecoded(i) /\ UNCHANGED <<app, resources, thumbs>>
  \/ \E i \in 1..MaxSrcLoads : SrcProcessed(i) /\ UNCHANGED <<app, resources, thumbs>>
  \/ \E i \in 1..MaxSrcLoads : NoSelectionReady /\ SrcMeasured(i) /\ UNCHANGED <<app, resources, thumbs>>
  \/ \E i \in 1..MaxSrcLoads : SrcApply(i) /\ UNCHANGED <<app, resources, thumbs>>
  \/ \E i \in 1..MaxSrcLoads : SrcWrap(i) /\ UNCHANGED <<app, resources, thumbs>>
  \/ NoSelectionReady /\ TimerFire /\ UNCHANGED <<app, resources, thumbs>>
  \/ NoSelectionReady /\ Tick /\ UNCHANGED <<app, resources, thumbs>>

SpecSelection == Init /\ [][NextSelection]_vars

(***************************************************************************)
(* The thumbnail scheduler with render functions that take some time       *)
(***************************************************************************)
\* renderPresetThumbnail(preset, target): schedule() is given a function
\* that awaits; the function starts now or the task waits on pending
ScheduleThumb(i, p) ==
  /\ microtasks = <<>>
  /\ thumbs.tasks[i].pc = "idle"
  /\ \A j \in 1..(i - 1) : thumbs.tasks[j].pc # "idle"
  /\ thumbs' = Schedule(thumbs, i, p)
  /\ hist' = Did("renderPresetThumbnail", i)
  /\ UNCHANGED <<settings, engineState, svg, renderer, timer, reflect,
                 export, loadVars, srcVars, app, resources>>

\* The function of task i returns or throws: resolve / reject, then finally
ThumbSettled(i, ok) ==
  /\ microtasks = <<>>
  /\ thumbs.tasks[i].pc = "running"
  /\ thumbs' = TaskFinally(thumbs, i, IF ok THEN "resolved" ELSE "rejected")
  /\ hist' = Did("thumbSettled", i)
  /\ UNCHANGED <<settings, engineState, svg, renderer, timer, reflect,
                 export, loadVars, srcVars, app, resources>>

\* rerenderVisibleThumbs and the other callers of bumpGeneration
BumpGenerationCall ==
  /\ microtasks = <<>>
  /\ thumbs.generation < MaxBumps
  /\ thumbs' = BumpGeneration(thumbs)
  /\ hist' = Did("bumpGeneration", 0)
  /\ UNCHANGED <<settings, engineState, svg, renderer, timer, reflect,
                 export, loadVars, srcVars, app, resources>>

\* Browsers reporting two and five logical processors
InitThumbs ==
  /\ layerImageCache = <<>>
  /\ imageCache = <<>>
  /\ resources = FreshResources({"r1"})
  /\ thumbs \in {ThumbnailRenderer(hw) : hw \in {2, 5}}
  /\ InitEngine

NextThumbs ==
  \/ \E i \in 1..MaxThumbs : ScheduleThumb(i, "p1")
  \/ \E i \in 1..MaxThumbs : \E ok \in BOOLEAN : ThumbSettled(i, ok)
  \/ BumpGenerationCall

SpecThumbs == InitThumbs /\ [][NextThumbs]_vars

\* Every render function that has started settles in the end
SpecThumbsFair ==
  /\ SpecThumbs
  /\ \A i \in 1..MaxThumbs : WF_vars(\E ok \in BOOLEAN : ThumbSettled(i, ok))

(***************************************************************************)
(* The thumbnail renders themselves, on the thumbnail renderer's engine    *)
(***************************************************************************)
\* Presets of the gallery: their layers and defaults
ThumbPresets ==
  [p1 |-> [id |-> "p1", defaultScale |-> 50, defaultStrength |-> 100,
           layers |-> <<LayerSpec("u1", "tiled", 0)>>],
   p2 |-> [id |-> "p2", defaultScale |-> 80, defaultStrength |-> 30,
           layers |-> <<LayerSpec("u2", "stretched", 0)>>]]
ThumbPresetIds == {"p1", "p2"}

\* buildMapSourceFromPreset: a layer keeps its own scale, if it has one
BuildMapSourceFromPreset(preset) ==
  [kind |-> "multi",
   layers |-> [n \in 1..Len(preset.layers) |->
                 LayerSpec(preset.layers[n].src, preset.layers[n].tiling,
                           preset.layers[n].scale)]]

\* The continuation of render i after loadMapAndWait is ready
ThumbReady(i) == thumbs.tasks[i].pc = "loading" /\ mapLoads[i].pc = "done"
NoThumbReady == \A i \in 1..MaxMapLoads : ~ThumbReady(i)

\* renderPresetThumbnail(preset, target) with target the element of the
\* preset, when the scheduler starts the function at once: up to the call
\* of loadMapAndWait, which calls loadMap with the multi-layer source
RenderPresetThumbnail(i, p) ==
  /\ microtasks = <<>> /\ NoThumbReady
  /\ thumbs.tasks[i].pc = "idle" /\ mapLoads[i].pc = "idle"
  /\ \A j \in 1..(i - 1) : thumbs.tasks[j].pc # "idle"
  /\ LET th == Schedule(thumbs, i, p)
         e == ApiSetBatchMode(Engine, FALSE)
         src == BuildMapSourceFromPreset(ThumbPresets[p])
     IN /\ th.tasks[i].pc = "running"
        /\ thumbs' = [th EXCEPT !.tasks[i].pc = "loading"]
        /\ Becomes([e EXCEPT !.engineState.currentMapLoadingUrl =
                                 MultiKey(src.layers)])
        /\ mapLoads' = [mapLoads EXCEPT ![i] =
                          [IdleMapLoad EXCEPT !.src = src,
                                              !.via = "loadMapAndWait",
                                              !.pc = "resolve",
                                              !.key = MultiKey(src.layers)]]
  /\ microtasks' = Append(microtasks, <<"resolve", i>>)
  /\ hist' = Did("renderPresetThumbnail", i)
  /\ UNCHANGED <<export, layerImageCache, inflightLoads, srcVars, app, resources>>

\* What the serialized SVG of renderToThumbnailBytes shows
ThumbSnapshot(e) ==
  [feImgHref |-> e.svg.feImgHref, scalePct |-> e.engineState.scalePct,
   strength |-> e.settings.strength]

\* The cache key of a render: generation and preset defaults
ThumbKey(t) ==
  <<t.startGen, ThumbPresets[t.preset].id, ThumbPresets[t.preset].defaultScale,
    ThumbPresets[t.preset].defaultStrength>>

\* renderPresetThumbnail after loadMapAndWait: the setters, forceRedraw,
\* the generation check, the cache lookup, and getThumbnailBytes up to the
\* first await of renderToThumbnailBytes
ThumbMapLoaded(i) ==
  /\ microtasks = <<>> /\ ThumbReady(i)
  /\ LET t == thumbs.tasks[i]
         p == ThumbPresets[t.preset]
         e1 == ApiSetStrength(ApiSetScale(Engine, p.defaultScale), p.defaultStrength)
         e2 == ApiSetSoft(ApiSetBlur(ApiSetChromaticAberration(e1, 0), 0), 0)
         e3 == ApiTriggerBatchUpdate(ApiSetDissolveStrength(e2, 0))
         u == UpdateCallback(e3.engineState, e3.renderer, e3.svg, e3.settings)
         e4 == [e3 EXCEPT !.engineState = u[1], !.renderer = u[2],
                          !.svg = InlineDisplacementTexture(u[3], u[2])]
         hit == {c \in thumbs.cache : c.key = ThumbKey(t)}
     IN /\ Becomes(e4)
        /\ thumbs' =
             IF t.startGen # thumbs.generation
             THEN TaskFinally(thumbs, i, "resolved")
             ELSE IF hit # {}
             THEN TaskFinally([thumbs EXCEPT !.tasks[i].applied =
                                 <<(CHOOSE c \in hit : TRUE).dataUrl>>],
                              i, "resolved")
             ELSE [thumbs EXCEPT !.tasks[i].pc = "snapshot",
                                 !.tasks[i].snapshot = <<ThumbSnapshot(e4)>>]
  /\ hist' = Did("thumbMapLoaded", i)
  /\ UNCHANGED <<export, loadVars, srcVars, app, resources>>

\* renderToThumbnailBytes has drawn and encoded the serialized SVG: its
\* finally puts back the href it saved
ThumbEncoded(i) ==
  /\ microtasks = <<>> /\ NoThumbReady
  /\ thumbs.tasks[i].pc = "snapshot"
  /\ svg' = [svg EXCEPT !.feImgHref = thumbs.tasks[i].snapshot[1].feImgHref]
  /\ thumbs' = [thumbs EXCEPT !.tasks[i].pc = "cropping"]
  /\ hist' = Did("thumbEncoded", i)
  /\ UNCHANGED <<settings, engineState, renderer, timer, reflect, export,
                 loadVars, srcVars, app, resources>>

\* The crop on the main thread after blobToImage: applyDataUrl
ThumbCropped(i) ==
  /\ microtasks = <<>> /\ NoThumbReady
  /\ thumbs.tasks[i].pc = "cropping"
  /\ LET t == thumbs.tasks[i]
         applied == IF t.startGen # thumbs.generation THEN thumbs
                    ELSE [thumbs EXCEPT
                            !.tasks[i].applied = t.snapshot,
                            !.cache = {c \in @ : c.key # ThumbKey(t)}
                                        \cup {[key |-> ThumbKey(t),
                                               dataUrl |-> t.snapshot[1]]}]
     IN thumbs' = TaskFinally(applied, i, "resolved")
  /\ hist' = Did("thumbCropped", i)
  /\ UNCHANGED <<settings, engineState, svg, renderer, timer, reflect, export,
                 loadVars, srcVars, app, resources>>

NextThumbRender ==
  \/ \E i \in 1..MaxMapLoads : \E p \in ThumbPresetIds : RenderPresetThumbnail(i, p)
  \/ \E i \in 1..MaxMapLoads : MapResolve(i) /\ UNCHANGED <<app, resources, thumbs>>
  \/ \E u \in Keys : NoThumbReady /\ DecodeDone(u) /\ UNCHANGED <<app, resources, thumbs>>
  \/ \E i \in 1..MaxMapLoads : MapCont(i) /\ UNCHANGED <<app, resources, thumbs>>
  \/ \E i \in 1..MaxMapLoads : MapWrap(i) /\ UNCHANGED <<app, resources, thumbs>>
  \/ \E i \in 1..MaxMapLoads : ThumbMapLoaded(i)
  \/ \E i \in 1..MaxMapLoads : ThumbEncoded(i)
  \/ \E i \in 1..MaxMapLoads : ThumbCropped(i)
  \/ NoThumbReady /\ BumpGenerationCall
  \/ NoThumbReady /\ TimerFire /\ UNCHANGED <<app, resources, thumbs>>
  \/ NoThumbReady /\ Tick /\ UNCHANGED <<app, resources, thumbs>>

SpecThumbRender == Init /\ [][NextThumbRender]_vars

(***************************************************************************)
(* FilterRenderer.drawTiledMap as a function of its arguments              *)
(***************************************************************************)
\* Math.ceil(a / b) for b > 0
CeilDiv(a, b) == 0 - ((0 - a) \div b)

\* A tiling that starts at the tile holding the origin
IndexAtOrigin(extent, origin, size) == 0

\* startI, startJ: one tile before the tile that holds coordinate 0
StartIndex(extent, origin, size) == ((0 - origin) \div size) - 1

\* endI, endJ: one tile after the tile that reaches the far canvas edge
EndIndex(extent, origin, size) == CeilDiv(extent - origin, size) + 1

\* The origin of the tile grid along one axis; align is "start" (left/top),
\* "center" or "end" (right/bottom); lengths in units of 1/q pixel
TileOrigin(align, extent, size, offset, q) ==
  (CASE align = "center" -> ((extent - size) \div (2 * q)) * q
     [] align = "end" -> extent - size
     [] OTHER -> 0) + offset * q

\* The drawImage calls of drawTiledMap. mapScale is an exact rational n/d;
\* every length of the result is in units of 1/d pixel, so that the
\* products and quotients of the code are computed without rounding.
DrawTiledMap(canvasW, canvasH, map, mapScale, scaleMode, alignX, alignY, offsetX, offsetY) ==
  LET q == mapScale.d
      cw == canvasW * q
      ch == canvasH * q
      w == IF scaleMode = "yOnly" THEN Max2(q, cw)
           ELSE Max2(q, map[1] * mapScale.n)
      h == IF scaleMode = "xOnly" THEN Max2(q, ch)
           ELSE Max2(q, map[2] * mapScale.n)
      originX == TileOrigin(alignX, cw, w, offsetX, q)
      originY == TileOrigin(alignY, ch, h, offsetY, q)
      startI == StartIndex(cw, originX, w)
      startJ == StartIndex(ch, originY, h)
      endI == EndIndex(cw, originX, w)
      endJ == EndIndex(ch, originY, h)
      Skipped(x, y) == \/ x > cw \/ y > ch
                       \/ x + w < 0 \/ y + h < 0
  IN IF canvasW <= 0 \/ canvasH <= 0 THEN {}
     ELSE {[x |-> originX + ij[1] * w, y |-> originY + ij[2] * h,
            w |-> w, h |-> h] :
             ij \in {p \in (startI..endI) \X (startJ..endJ) :
                       ~Skipped(originX + p[1] * w, originY + p[2] * h)}}

\* Arguments a layer can be drawn with: tiles smaller and larger than the
\* canvas, of whole and of fractional size
TileArgs ==
  [canvas : {<<4, 3>>, <<5, 4>>},
   map : {<<2, 2>>, <<3, 1>>, <<12, 9>>},
   mapScale : {Frac(1, 2), Frac(1, 1), Frac(3, 2)},
   scaleMode : {"uniform", "xOnly", "yOnly"},
   alignX : {"start", "center", "end"},
   alignY : {"start", "center", "end"},
   offsetX : {-3, 0, 2},
   offsetY : {0, 1}]

\* One drawTiledMap call is about to be made with some arguments
InitTiles ==
  /\ layerImageCache = <<>>
  /\ imageCache = <<>>
  /\ resources = FreshResources({"r1"})
  /\ thumbs = ThumbnailRenderer(6)
  /\ InitEngineState
  /\ \E a \in TileArgs :
       hist = [InitHist EXCEPT !.tiles = [pending |-> TRUE, args |-> a,
                                          drawn |-> {}]]

\* The call; the drawImage calls it makes are recorded in the history
DrawTiledMapCall ==
  /\ hist.tiles.pending
  /\ LET a == hist.tiles.args
     IN hist' = [Did("drawTiledMap", 0) EXCEPT
                   !.tiles = [pending |-> FALSE, args |-> a,
                              drawn |-> DrawTiledMap(a.canvas[1], a.canvas[2],
                                          a.map, a.mapScale, a.scaleMode,
                                          a.alignX, a.alignY,
                                          a.offsetX, a.offsetY)]]
  /\ UNCHANGED <<settings, engineState, svg, renderer, timer, reflect,
                 export, loadVars, srcVars, app, resources, thumbs>>

NextTiles == DrawTiledMapCall

SpecTiles == InitTiles /\ [][NextTiles]_vars

\* The two updateImageDimensions methods called with given dimensions, the
\* settings and the map they derive attributes from being set by the API
NextDims ==
  \/ \E k \in 1..Len(DimValues) : EffectsUpdateImageDimensions(k) /\ UNCHANGED <<app, resources, thumbs>>
  \/ \E k \in 1..Len(DimValues) : RendererUpdateImageDimensions(k) /\ UNCHANGED <<app, resources, thumbs>>
  \/ \E v \in StrengthValues : SetStrength(v) /\ UNCHANGED <<app, resources, thumbs>>
  \/ \E v \in BlurValues : SetBlur(v) /\ UNCHANGED <<app, resources, thumbs>>
  \/ IssueMapLoad(1, BitmapMap, "loadMap") /\ UNCHANGED <<app, resources, thumbs>>
  \/ MapWrap(1) /\ UNCHANGED <<app, resources, thumbs>>
  \/ TimerFire /\ UNCHANGED <<app, resources, thumbs>>
  \/ Tick /\ UNCHANGED <<app, resources, thumbs>>

SpecDims == Init /\ [][NextDims]_vars

\* Map loads of resource:// assets and plain URLs, the network failing or not
ResourceSources == {[kind |-> "url", url |-> u] : u \in ResourceUrls \cup {"u1"}}

InitResource ==
  /\ layerImageCache = <<>>
  /\ imageCache = <<>>
  /\ resources \in {FreshResources(m) : m \in Manifests}
  /\ thumbs = ThumbnailRenderer(6)
  /\ InitEngine

NextResource ==
  \/ \E i \in 1..MaxMapLoads : \E src \in ResourceSources : \E via \in Vias :
       IssueMapLoad(i, src, via) /\ UNCHANGED <<app, resources, thumbs>>
  \/ \E i \in 1..MaxMapLoads : MapThen(i) /\ UNCHANGED <<app, resources, thumbs>>
  \/ \E i \in 1..MaxMapLoads : ResolveResource(i)
  \/ \E id \in resources.manifest : \E ok \in BOOLEAN : FetchSettled(id, ok)
  \/ \E id \in resources.manifest : RetryDelay(id)
  \/ \E i \in 1..MaxMapLoads : MapResolve(i) /\ UNCHANGED <<app, resources, thumbs>>
  \/ \E u \in DOMAIN inflightLoads : DecodeDone(u) /\ UNCHANGED <<app, resources, thumbs>>
  \/ \E i \in 1..MaxMapLoads : MapCont(i) /\ UNCHANGED <<app, resources, thumbs>>
  \/ \E i \in 1..MaxMapLoads : MapWrap(i) /\ UNCHANGED <<app, resources, thumbs>>

SpecResource == InitResource /\ [][NextResource]_vars

\* Exports of the initial 512 x 512 surface and of sources above the export
\* ceiling
NextRaster ==
  \/ \E i \in 1..MaxSrcLoads : \E b \in LargeBytes :
       IssueSrcLoad(i, b) /\ UNCHANGED <<app, resources, thumbs>>
  \/ \E i \in 1..MaxSrcLoads : SrcDecoded(i) /\ UNCHANGED <<app, resources, thumbs>>
  \/ \E i \in 1..MaxSrcLoads : SrcPreviewDecoded(i) /\ UNCHANGED <<app, resources, thumbs>>
  \/ \E i \in 1..MaxSrcLoads : SrcProcessed(i) /\ UNCHANGED <<app, resources, thumbs>>
  \/ \E i \in 1..MaxSrcLoads : SrcMeasured(i) /\ UNCHANGED <<app, resources, thumbs>>
  \/ \E i \in 1..MaxSrcLoads : SrcApply(i) /\ UNCHANGED <<app, resources, thumbs>>
  \/ \E i \in 1..MaxSrcLoads : SrcWrap(i) /\ UNCHANGED <<app, resources, thumbs>>
  \/ ExportCall /\ UNCHANGED <<app, resources, thumbs>>
  \/ \E ok \in BOOLEAN : ExportSvgLoaded(ok) /\ UNCHANGED <<app, resources, thumbs>>
  \/ ExportDraw /\ UNCHANGED <<app, resources, thumbs>>
  \/ \E ok \in BOOLEAN : ExportEncoded(ok) /\ UNCHANGED <<app, resources, thumbs>>
  \/ ExportSettle /\ UNCHANGED <<app, resources, thumbs>>

SpecRaster == Init /\ [][NextRaster]_vars

\* The portable markup exported under any parameter values
NextCode ==
  \/ \E v \in StrengthValues : SetStrength(v) /\ UNCHANGED <<app, resources, thumbs>>
  \/ \E v \in ChromaticValues : SetChromaticAberration(v) /\ UNCHANGED <<app, resources, thumbs>>
  \/ \E v \in BlurValues : SetBlur(v) /\ UNCHANGED <<app, resources, thumbs>>
  \/ \E v \in SoftValues : SetSoft(v) /\ UNCHANGED <<app, resources, thumbs>>
  \/ \E v \in ScaleValues : SetScale(v) /\ UNCHANGED <<app, resources, thumbs>>
  \/ \E v \in DissolveValues : SetDissolveStrength(v) /\ UNCHANGED <<app, resources, thumbs>>
  \/ ExportSVGCodeCall /\ UNCHANGED <<app, resources, thumbs>>
  \/ IssueMapLoad(1, BitmapMap, "loadMap") /\ UNCHANGED <<app, resources, thumbs>>
  \/ MapWrap(1) /\ UNCHANGED <<app, resources, thumbs>>
  \/ TimerFire /\ UNCHANGED <<app, resources, thumbs>>
  \/ Tick /\ UNCHANGED <<app, resources, thumbs>>

SpecCode == Init /\ [][NextCode]_vars

\* Source loads with the processed-image cache started warm
InitImageCache ==
  /\ layerImageCache = <<>>
  /\ imageCache \in {[n \in 1..Len(w) |-> [key |-> CreateCacheKey(w[n]), image |-> w[n]]]
                       : w \in WarmImageCaches}
  /\ resources = FreshResources({"r1"})
  /\ thumbs = ThumbnailRenderer(6)
  /\ InitEngine

NextImageCache ==
  \/ \E i \in 1..MaxSrcLoads : \E b \in {"b1", "b2"} :
       IssueSrcLoad(i, b) /\ UNCHANGED <<app, resources, thumbs>>
  \/ \E i \in 1..MaxSrcLoads : SrcDecoded(i) /\ UNCHANGED <<app, resources, thumbs>>
  \/ \E i \in 1..MaxSrcLoads : SrcPreviewDecoded(i) /\ UNCHANGED <<app, resources, thumbs>>
  \/ \E i \in 1..MaxSrcLoads : SrcProcessed(i) /\ UNCHANGED <<app, resources, thumbs>>
  \/ \E i \in 1..MaxSrcLoads : SrcMeasured(i) /\ UNCHANGED <<app, resources, thumbs>>
  \/ \E i \in 1..MaxSrcLoads : SrcApply(i) /\ UNCHANGED <<app, resources, thumbs>>
  \/ \E i \in 1..MaxSrcLoads : SrcWrap(i) /\ UNCHANGED <<app, resources, thumbs>>

SpecImageCache == InitImageCache /\ [][NextImageCache]_vars

\* Shuffles whose map may arrive late or never, with the user moving the
\* dissolve slider meanwhile
NextShuffle ==
  \/ \E i \in 1..MaxMapLoads : \E src \in PresetMaps :
       \E values \in RandomizedValues :
         Randomize(i, src, values) /\ UNCHANGED <<resources, thumbs>>
  \/ \E i \in 1..MaxMapLoads : ShuffleImported(i) /\ UNCHANGED <<resources, thumbs>>
  \/ \E i \in 1..MaxMapLoads : ShuffleLoaded(i) /\ UNCHANGED <<resources, thumbs>>
  \/ ShuffleTimeout /\ UNCHANGED <<resources, thumbs>>
  \/ FinalRender /\ UNCHANGED <<resources, thumbs>>
  \/ AppTick /\ UNCHANGED <<resources, thumbs>>
  \/ \E i \in 1..MaxMapLoads : MapThen(i) /\ UNCHANGED <<app, resources, thumbs>>
  \/ \E i \in 1..MaxMapLoads : MapResolve(i) /\ UNCHANGED <<app, resources, thumbs>>
  \/ \E u \in Keys : NoShuffleReady /\ DecodeDone(u) /\ UNCHANGED <<app, resources, thumbs>>
  \/ \E i \in 1..MaxMapLoads : MapCont(i) /\ UNCHANGED <<app, resources, thumbs>>
  \/ \E i \in 1..MaxMapLoads : MapWrap(i) /\ UNCHANGED <<app, resources, thumbs>>
  \/ NoShuffleReady /\ TimerFire /\ UNCHANGED <<app, resources, thumbs>>
  \/ \E v \in DissolveValues :
       NoShuffleReady /\ SetDissolveStrength(v) /\ UNCHANGED <<app, resources, thumbs>>

SpecShuffle == Init /\ [][NextShuffle]_vars

\* The static cache under prefetches, started warm
InitCache ==
  /\ layerImageCache \in WarmCaches
  /\ imageCache = <<>>
  /\ resources = FreshResources({"r1"})
  /\ thumbs = ThumbnailRenderer(6)
  /\ InitEngine

NextCache ==
  \/ \E sources \in PrefetchSources : PrefetchMapSources(sources) /\ UNCHANGED <<app, resources, thumbs>>
  \/ PrefetchResolve /\ UNCHANGED <<app, resources, thumbs>>
  \/ \E u \in DOMAIN inflightLoads : DecodeDone(u) /\ UNCHANGED <<app, resources, thumbs>>

SpecCache == InitCache /\ [][NextCache]_vars

\* Prefetches made while maps are loaded from URLs and layer lists
NextPrefetch ==
  \/ \E i \in 1..MaxMapLoads :
       \E src \in {s \in MapSources : IF s.kind = "url" THEN s.url # "u2"
                                     ELSE s.kind = "multi"
                                            /\ s.layers[1].scale = 50} :
         IssueMapLoad(i, src, "loadMap") /\ UNCHANGED <<app, resources, thumbs>>
  \/ \E sources \in {<<"u1">>, <<"bad">>, <<"c1", "u1">>} :
       PrefetchMapSources(sources) /\ UNCHANGED <<app, resources, thumbs>>
  \/ PrefetchResolve /\ UNCHANGED <<app, resources, thumbs>>
  \/ \E i \in 1..MaxMapLoads : MapThen(i) /\ UNCHANGED <<app, resources, thumbs>>
  \/ \E i \in 1..MaxMapLoads : MapResolve(i) /\ UNCHANGED <<app, resources, thumbs>>
  \/ \E u \in Keys \cup {"c1"} : DecodeDone(u) /\ UNCHANGED <<app, resources, thumbs>>
  \/ \E i \in 1..MaxMapLoads : MapCont(i) /\ UNCHANGED <<app, resources, thumbs>>
  \/ \E i \in 1..MaxMapLoads : MapWrap(i) /\ UNCHANGED <<app, resources, thumbs>>

SpecPrefetch == Init /\ [][NextPrefetch]_vars

\* Exports on an engine that loads a source image and a pre-decoded map
NextExport ==
  \/ ExportCall /\ UNCHANGED <<app, resources, thumbs>>
  \/ \E ok \in BOOLEAN : ExportSvgLoaded(ok) /\ UNCHANGED <<app, resources, thumbs>>
  \/ ExportDraw /\ UNCHANGED <<app, resources, thumbs>>
  \/ \E ok \in BOOLEAN : ExportEncoded(ok) /\ UNCHANGED <<app, resources, thumbs>>
  \/ ExportSettle /\ UNCHANGED <<app, resources, thumbs>>
  \/ \E i \in 1..MaxSrcLoads : \E b \in {"b1", "b2"} : IssueSrcLoad(i, b) /\ UNCHANGED <<app, resources, thumbs>>
  \/ \E i \in 1..MaxSrcLoads : SrcDecoded(i) /\ UNCHANGED <<app, resources, thumbs>>
  \/ \E i \in 1..MaxSrcLoads : SrcPreviewDecoded(i) /\ UNCHANGED <<app, resources, thumbs>>
  \/ \E i \in 1..MaxSrcLoads : SrcProcessed(i) /\ UNCHANGED <<app, resources, thumbs>>
  \/ \E i \in 1..MaxSrcLoads : SrcMeasured(i) /\ UNCHANGED <<app, resources, thumbs>>
  \/ \E i \in 1..MaxSrcLoads : SrcApply(i) /\ UNCHANGED <<app, resources, thumbs>>
  \/ \E i \in 1..MaxSrcLoads : SrcWrap(i) /\ UNCHANGED <<app, resources, thumbs>>
  \/ IssueMapLoad(1, BitmapMap, "loadMap") /\ UNCHANGED <<app, resources, thumbs>>
  \/ MapWrap(1) /\ UNCHANGED <<app, resources, thumbs>>
  \/ TimerFire /\ UNCHANGED <<app, resources, thumbs>>
  \/ Tick /\ UNCHANGED <<app, resources, thumbs>>

SpecExport == Init /\ [][NextExport]_vars

(***************************************************************************)
(* Render scheduler properties                                             *)
(***************************************************************************)
SetterOps == {"setStrength", "setChromaticAberration", "setBlur", "setSoft",
              "setScale", "setDissolveStrength", "setReflectOpacity"}

\* What the preview shows: the filter graph's attributes, the add-on's included
Visible == <<svg, reflect.opacityTable, reflect.mergeIn, reflect.contrastTable,
             reflect.softBlur>>

Recomputed == renderer'.renderGeneration # renderer.renderGeneration

\* C1: while the renderer is in batch mode, no parameter-setter call
\* (setStrength, setChromaticAberration, setBlur, setSoft, setScale,
\* setDissolveStrength, setReflectOpacity) recomputes the displacement texture.
C1_NoRecomputeInBatch ==
  [][(renderer.isBatchMode /\ hist'.op \in SetterOps) => ~Recomputed]_vars

\* C5: a flush (triggerBatchUpdate) leaves its recompute scheduled until the
\* debounce timer expires; that expiry runs the update callback once, which
\* with a map loaded recomputes the texture exactly once and leaves no second
\* callback scheduled.
C5_FlushRecomputesOnce ==
  /\ [](hist.flushPending => timer.rem >= 0)
  /\ [][(hist.flushPending /\ hist'.op = "timerFire") =>
          /\ timer'.rem = -1
          /\ HasMap(engineState) =>
               renderer'.renderGeneration = renderer.renderGeneration + 1]_vars

\* A flush called in batch mode after a setter call has been served by a timer
\* expiry that recomputed the texture
C5_Witness ==
  /\ hist.op = "timerFire" /\ hist.flushServed
  /\ HasMap(engineState) /\ renderer.renderGeneration = 1
  /\ renderer.isBatchMode /\ settings.strength = 100

\* C8: the flush (triggerBatchUpdate) recomputes the texture within the call,
\* without waiting for the debounce delay, and no later update request
\* restarts the timer that carries it.
C8_FlushIsImmediate ==
  /\ [][(hist'.op = "triggerBatchUpdate" /\ HasMap(engineState)) =>
          renderer'.renderGeneration = renderer.renderGeneration + 1]_vars
  /\ [](~timer.postponed)

\* C9: leaving batch mode, setBatchMode(false), neither recomputes the texture
\* nor changes anything the preview shows, the reflect add-on's deferred
\* opacity and sharpness included.
C9_BatchOffChangesNothingVisible ==
  [][hist'.op = "setBatchModeOff" => (~Recomputed /\ Visible' = Visible)]_vars

(***************************************************************************)
(* Source loading properties                                               *)
(***************************************************************************)
\* What a source load writes: texture, geometry of the graph, image size
SourceState == <<svg.feSourceImgHref, svg.feSourceImgRect, svg.viewBox,
                 svg.filterRegion, svg.outputRect, svg.maskRect,
                 engineState.imageWidth, engineState.imageHeight,
                 loader.originalMirroredDataUrl>>

\* Call j of loadSourceFromBytes was made and was assigned a token
Tokened(j) == srcLoads[j].pc # "idle" /\ srcLoads[j].bytes # "empty"

AllSrcSettled == \A j \in 1..MaxSrcLoads : srcLoads[j].pc \in {"idle", "done"}

\* The source state is the one load j writes
ReflectsSource(j) ==
  LET b == srcLoads[j].bytes
  IN /\ ApplySource(svg, engineState, PreviewMirrored(b, srcLoads[j].hit),
                    SrcWidth(b), SrcHeight(b)) = <<svg, engineState>>
     /\ loader.originalMirroredDataUrl = OriginalMirrored(b)

\* C3: once a later loadSourceFromBytes call has been assigned its token, the
\* continuation of an earlier call writes nothing (texture href, image size,
\* viewBox, filter region), whichever decode finishes first; and when all
\* calls have settled and the last one decoded, the state is the one the
\* last call writes.
C3_StaleSourceNeverApplied ==
  /\ [][\A i \in 1..MaxSrcLoads :
          (hist'.op = "srcApply" /\ hist'.id = i
             /\ \E j \in (i + 1)..MaxSrcLoads : Tokened(j))
            => SourceState' = SourceState]_vars
  /\ [](\A j \in 1..MaxSrcLoads :
          (AllSrcSettled /\ Tokened(j) /\ SrcDecodable(srcLoads[j].bytes)
             /\ \A k \in (j + 1)..MaxSrcLoads : ~Tokened(k))
            => ReflectsSource(j))

\* The first call passed its first guard, the second call was made, decoded
\* and applied; then the first call's image arrived and was discarded
C3_Witness ==
  /\ hist.op = "srcApply" /\ hist.id = 1
  /\ SrcDecodable(srcLoads[1].bytes) /\ ~srcLoads[1].applied
  /\ srcLoads[2].pc = "done" /\ srcLoads[2].applied
  /\ srcLoads[1].bytes # srcLoads[2].bytes

\* C7: once a loaded source image is applied and its call has returned, the
\* per-channel displacement scales and the source blur equal the formulas at
\* the current parameters and the image's max(W,H).
C7_ScalesFollowImageSize ==
  (hist.srcApplied # 0 /\ srcLoads[hist.srcApplied].pc = "done")
    => /\ svg.viewBox = <<engineState.imageWidth, engineState.imageHeight>>
       /\ UpdateBlur(UpdateDisplacementScales(svg, settings, engineState),
                     settings, engineState) = svg

(***************************************************************************)
(* Map loading properties                                                  *)
(***************************************************************************)
\* Every image the source names can be decoded
MapDecodes(src) ==
  CASE src.kind = "multi" ->
         \A k \in 1..Len(src.layers) : Decodable(src.layers[k].src)
    [] src.kind = "file" -> Decodable(DataUrlOf(src.file))
    [] src.kind \in {"url", "img"} -> Decodable(src.url)
    [] OTHER -> FALSE

\* The map state a source stands for
MapImageOf(src) ==
  CASE src.kind = "multi" -> src.layers[1].src
    [] src.kind = "file" -> DataUrlOf(src.file)
    [] OTHER -> src.url
LayerImagesOf(src) ==
  IF src.kind = "multi" THEN MultiLayers(src.layers)
  ELSE SingleLayer(MapImageOf(src))

AllMapsSettled == \A j \in 1..MaxMapLoads : mapLoads[j].pc \in {"idle", "done"}

\* C2: of two map loads A then B, with B issued before A settled and A
\* settling after B, the map state (mapImage, layerImages) is B's once all
\* loads have settled, B being the last load issued and decodable.
C2_LaterMapLoadWins ==
  \A a, b \in 1..MaxMapLoads :
    (/\ a < b /\ AllMapsSettled
     /\ mapLoads[b].pc = "done" /\ \A k \in (b + 1)..MaxMapLoads : mapLoads[k].pc = "idle"
     /\ mapLoads[a].settled > mapLoads[b].settled
     /\ MapDecodes(mapLoads[b].src))
    => /\ engineState.mapImage = MapImageOf(mapLoads[b].src)
       /\ engineState.layerImages = LayerImagesOf(mapLoads[b].src)

\* The engine state the API lets the application observe
Observable == <<svg.feSourceImgHref, svg.viewBox, engineState.imageWidth,
                engineState.imageHeight, engineState.mapImage,
                engineState.layerImages, svg.feImgHref>>

MapLoadOps == {"loadMap", "loadMapAndWait", "fileRead", "mapThen",
               "mapResolve", "mapCont", "mapWrap"}
SrcLoadOps == {"loadSourceFromBytes", "srcDecoded", "srcPreviewDecoded",
               "srcProcessed", "srcMeasured", "srcApply", "srcWrap"}

\* C6: no step of a map load or source load whose data cannot be decoded
\* changes the observable engine state (source texture, image size, mapImage,
\* layerImages, displacement texture), so the state after the failure is the
\* state before the load.
C6_FailedLoadChangesNothing ==
  [][/\ \A i \in 1..MaxMapLoads :
          (hist'.op \in MapLoadOps /\ hist'.id = i
             /\ ~MapDecodes(mapLoads'[i].src)) => Observable' = Observable
     /\ \A i \in 1..MaxSrcLoads :
          (hist'.op \in SrcLoadOps /\ hist'.id = i
             /\ ~SrcDecodable(srcLoads'[i].bytes)) => Observable' = Observable
    ]_vars

\* C10: a failed load is reported as a rejection: the promise of a
\* loadMapAndWait call whose loadMap rejected is rejected, and so is the
\* promise of a loadSourceFromBytes call that failed.
C10_FailedLoadRejects ==
  /\ \A i \in 1..MaxMapLoads :
       (mapLoads[i].pc = "done" /\ mapLoads[i].via = "loadMapAndWait"
          /\ mapLoads[i].outcome = "rejected") => mapLoads[i].api = "rejected"
  /\ \A i \in 1..MaxSrcLoads :
       (srcLoads[i].pc = "done" /\ srcLoads[i].failed)
         => srcLoads[i].outcome = "rejected"

(***************************************************************************)
(* Export properties                                                       *)
(***************************************************************************)
\* Between the export call and now nothing else wrote the two hrefs: no
\* recompute ran and no source image was applied
ExportUndisturbed ==
  /\ renderer.renderGeneration = export.genBefore
  /\ hist.srcApplied = export.srcBefore

\* C4: when an export settles, resolved or rejected, the displacement
\* texture href (feImg) and the source texture href (feSourceImg) are the
\* ones from immediately before the getImageBytes call.
C4_ExportRestoresHrefs ==
  (hist.op = "exportSettle" /\ ExportUndisturbed)
    => /\ svg.feImgHref = export.feImgBefore
       /\ svg.feSourceImgHref = export.feSourceBefore

(***************************************************************************)
(* The decoded-image cache                                                 *)
(***************************************************************************)
Cached == {layerImageCache[n] : n \in 1..Len(layerImageCache)}

\* C11: when a key that is not cached is inserted into a cache that holds
\* its maximum of keys, exactly one key leaves the cache and it is the one
\* touched least recently, a touch being the key's insertion or a request
\* that found it cached; no other step removes a key.
C11_EvictsLeastRecentlyTouched ==
  [][LET decoded == {u \in DOMAIN inflightLoads \ DOMAIN inflightLoads' :
                        Decodable(u) /\ u \notin Cached}
     IN /\ Cardinality(Cached) <= IMAGE_CACHE_MAX_SIZE
        /\ IF /\ hist'.op = "decodeDone"
              /\ Cardinality(Cached) = IMAGE_CACHE_MAX_SIZE
              /\ decoded # {}
           THEN Cached' = (Cached \ {Head(hist.touched)}) \cup decoded
           ELSE Cached \subseteq Cached']_vars

\* An insertion evicted c2 and not c1, which was inserted first but has been
\* requested again since
C11_Witness ==
  /\ hist.op = "decodeDone"
  /\ layerImageCache =
       <<"c3", "c4", "c5", "c6", "c7", "c8", "c9", "c10", "c1", "c11">>

\* The requests of a step that asked for URL u when it was not cached
Requesters(u) ==
  IF hist'.op = "prefetchResolve" THEN {0}
  ELSE {i \in 1..MaxMapLoads :
          /\ hist'.op = "mapResolve" /\ hist'.id = i
          /\ InSeq(LoadKeys(mapLoads[i]), u)}

\* C12: never are two Image elements decoding the same resolved URL, and a
\* request for a URL whose load is in flight starts no decode: it joins the
\* requests waiting for that load, none of which is dropped, and all of them
\* are answered by the one completion of that load.
C12_OneDecodePerKey ==
  /\ [](\A u \in DOMAIN hist.decoding : hist.decoding[u] <= 1)
  /\ [](DOMAIN hist.decoding = DOMAIN inflightLoads)
  /\ [][\A u \in DOMAIN inflightLoads :
          IF u \in DOMAIN inflightLoads'
          THEN /\ hist'.decoding[u] = hist.decoding[u]
               /\ \A i \in Requesters(u) : InSeq(inflightLoads'[u], i)
               /\ SubSeq(inflightLoads'[u], 1, Len(inflightLoads[u]))
                    = inflightLoads[u]
          ELSE /\ hist'.op = "decodeDone"
               /\ \A i \in 1..MaxMapLoads :
                    InSeq(inflightLoads[u], i) /\ mapLoads[i].pc = "loading"
                      => /\ mapLoads'[i].failed = ~Decodable(u)
                         /\ u \notin mapLoads'[i].need]_vars

\* Two loadMap calls wait for the one decode of u1
C12_Witness ==
  /\ "u1" \in DOMAIN inflightLoads
  /\ inflightLoads["u1"] = <<1, 2>>
  /\ hist.decoding["u1"] = 1
  /\ mapLoads[1].pc = "loading" /\ mapLoads[2].pc = "loading"

(***************************************************************************)
(* Recomputes of the displacement texture                                  *)
(***************************************************************************)
\* The steps that call redrawMap: setScale and the update callback
RedrawOps == {"setScale", "timerFire"}

Requested ==
  \/ timer.rem < 0 /\ timer'.rem >= 0
  \/ timer'.burst # timer.burst

\* C14: outside batch mode every update request restarts the one debounce
\* timer at the full delay and recomputes nothing; the callback runs only
\* when the delay has elapsed since the last request, recomputes the texture
\* once (a map being loaded) and leaves no timer behind; apart from
\* setScale's own redraw there is no other recompute.  So a burst of
\* requests less than the delay apart gets one recompute, after its last.
C14_BurstRecomputesOnce ==
  [][/\ Requested =>
          /\ ~Recomputed
          /\ timer'.rem = DEBOUNCE_DELAY
     /\ (~renderer.isBatchMode
          /\ hist'.op \in {"setDissolveStrength", "setReflectOpacity"})
          => Requested
     /\ hist'.op = "timerFire" =>
          /\ timer.rem = 0 /\ timer'.rem = -1
          /\ HasMap(engineState) =>
               renderer'.renderGeneration = renderer.renderGeneration + 1
     /\ (Recomputed /\ hist'.op # "setScale") => hist'.op = "timerFire"]_vars

\* The callback has run once for a burst of three requests made in Live mode
C14_Witness ==
  /\ hist.op = "timerFire" /\ timer.burst = 3
  /\ ~hist.flushServed /\ ~renderer.isBatchMode
  /\ renderer.renderGeneration = 1

(***************************************************************************)
(* The shuffle's recovery timeout                                          *)
(***************************************************************************)
\* C15: while the application is shuffling the recovery timeout is armed and
\* due SHUFFLE_TIMEOUT_MS after the shuffle began, so no shuffle lasts longer;
\* it expires only when no completion has ended the shuffle by then, and its
\* expiry takes the engine, the reflect add-on and the sliders out of batch
\* mode and schedules one final render, which FINAL_RENDER_DELAY later calls
\* the flush; the flush's callback recomputes the texture once.
C15_TimeoutEndsShuffle ==
  /\ [](app.isShuffling =>
          /\ app.shuffleTimeoutId >= 0
          /\ app.elapsed + app.shuffleTimeoutId = SHUFFLE_TIMEOUT_MS)
  /\ [](renderer.isBatchMode \/ reflect.isBatchMode
          \/ app.sliders.isInBatchMode => app.isShuffling)
  /\ [][hist'.op = "shuffleTimeout" =>
          /\ app.isShuffling /\ app.elapsed = SHUFFLE_TIMEOUT_MS
          /\ \E i \in 1..MaxMapLoads : app.perform[i].pc = "loading"
          /\ ~app'.isShuffling /\ ~app'.sliders.isInBatchMode
          /\ ~renderer'.isBatchMode /\ ~reflect'.isBatchMode
          /\ app'.finalTimeouts = Append(app.finalTimeouts, FINAL_RENDER_DELAY)
          /\ ~Recomputed]_vars
  /\ [][hist'.op = "finalRender" =>
          /\ hist'.flushPending /\ timer'.rem = DEBOUNCE_DELAY
          /\ Len(app'.finalTimeouts) = Len(app.finalTimeouts) - 1]_vars
  /\ [][(hist.flushPending /\ hist'.op = "timerFire" /\ HasMap(engineState)) =>
          renderer'.renderGeneration = renderer.renderGeneration + 1]_vars

\* A shuffle over a loaded map whose own map never arrived was ended by the
\* timeout, and the flush that followed has recomputed the texture
C15_Witness ==
  /\ hist.op = "timerFire" /\ hist.flushServed
  /\ app.perform[2].pc = "loading" /\ mapLoads[2].pc = "loading"
  /\ app.elapsed = SHUFFLE_TIMEOUT_MS
  /\ ~app.isShuffling /\ ~renderer.isBatchMode /\ ~app.sliders.isInBatchMode
  /\ renderer.renderGeneration > 0

(***************************************************************************)
(* clear                                                                   *)
(***************************************************************************)
DefaultEffectSettings ==
  [strength |-> 0, chromaticAberration |-> 0, blur |-> 0, soft |-> 0,
   scale |-> DEFAULT_SCALE, dissolveStrength |-> 0]

\* C16: after clear() the settings the engine reports (strength,
\* chromaticAberration, blur, soft, scale, dissolveStrength) are the initial
\* defaults, and the displacement scales, the source blur, the map blur and
\* the dissolve scale are the values those defaults give.
C16_ClearRestoresDefaults ==
  [][hist'.op = "clear" =>
       /\ GetCurrentEffectSettings' = DefaultEffectSettings
       /\ svg'.feDispMapR = 0 /\ svg'.feDispMapG = 0 /\ svg'.feDispMapB = 0
       /\ svg'.feGaussianBlur = 0
       /\ svg'.feMapGaussianBlur = Frac(0, 1)
       /\ svg'.feDispMapDissolve = 0]_vars

(***************************************************************************)
(* layerImages after a map load                                            *)
(***************************************************************************)
\* Load i completes with an image in this step, no load having been requested
\* after it
CompletesUnsuperseded(i) ==
  /\ mapLoads[i].settled = 0 /\ mapLoads'[i].settled > 0
  /\ mapLoads'[i].outcome = "resolved"
  /\ \A j \in (i + 1)..MaxMapLoads : mapLoads'[j].pc = "idle"

\* C17: when a map load completes without being superseded,
\* engineState.layerImages is exactly the layers of the requested source, in
\* order and with that request's parameters (one tiled layer for a URL, a
\* file or a decoded bitmap); no layer of the previous map remains.
C17_LayersReplacedWholesale ==
  [][\A i \in 1..MaxMapLoads :
       CompletesUnsuperseded(i)
         => engineState'.layerImages = LayerImagesOf(mapLoads'[i].src)]_vars

(***************************************************************************)
(* The map blur after setSoft and setScale                                 *)
(***************************************************************************)
\* soft * (scalePercent / 100 * BLUR_SOFTNESS_FACTOR)
SoftStdDev(soft, scalePct) == Frac(soft * scalePct * BLUR_SOFTNESS_FACTOR_X2, 200)

\* C18: after every setSoft and every setScale, in any order, the map-blur
\* stdDeviation of the live graph is soft * (scalePercent/100 * K3) for the
\* current soft value and the current scale percentage.
C18_MapBlurFollowsSoftAndScale ==
  [][hist'.op \in {"setSoft", "setScale"}
       => svg'.feMapGaussianBlur
            = SoftStdDev(settings'.soft, engineState'.scalePct)]_vars

(***************************************************************************)
(* updateImageDimensions called twice with the same values                 *)
(***************************************************************************)
\* C19: when updateImageDimensions(w,h) is called twice in a row with the
\* same values, the second call recomputes nothing (neither the displacement
\* scales, nor the blur, nor the scale cache), so the recomputation happens
\* at most once.
C19_SecondUpdateRecomputesNothing ==
  [][(hist.op \in DimOps /\ hist'.op = hist.op /\ hist'.id = hist.id)
       => /\ hist'.recomputed = {}
          /\ <<svg', renderer'>> = <<svg, renderer>>]_vars

\* the effects manager recomputed scales and blur for new dimensions, with a
\* strength set, and was called again with the same dimensions
C19_Witness ==
  /\ hist.op = "effects.updateImageDimensions"
  /\ hist.prior = <<{"updateDisplacementScales", "updateBlur"}>>
  /\ hist.recomputed = {}
  /\ settings.strength > 0

(***************************************************************************)
(* A resource:// asset whose fetch fails on every attempt                  *)
(***************************************************************************)
\* The image decoded from url is part of the map in engine state
Installed(url) ==
  \/ engineState.mapImage = url
  \/ \E k \in 1..Len(engineState.layerImages) :
       engineState.layerImages[k].image = url

\* C20: when the fetch of a resource:// map asset has failed on every retry
\* attempt, the promise of the map load is rejected and no map is installed
\* in engine state by that load.
C20_ExhaustedRetriesFailTheLoad ==
  \A i \in 1..MaxMapLoads :
    (mapLoads[i].pc = "done" /\ mapLoads[i].exhausted)
      => /\ mapLoads[i].outcome = "rejected"
         /\ ~Installed(ImageKey(mapLoads[i]))

(***************************************************************************)
(* The size of the exported raster                                         *)
(***************************************************************************)
\* C21: the exported raster's size is the viewBox size times
\* min(1, 4096 / max(W, H)), rounded to whole pixels: its longest side is at
\* most 4096, neither side is larger than the source's, and each side is
\* within a pixel of the exactly scaled one, so the aspect ratio is the
\* source's up to rounding.
C21_RasterSizeCapped ==
  [][hist'.op = "getImageBytes" =>
       LET W == svg.viewBox[1]
           H == svg.viewBox[2]
           M == Max2(W, H)
           w == export'.renderCanvas[1]
           h == export'.renderCanvas[2]
       IN /\ Max2(w, h) <= FIGMA_ABSOLUTE_LIMIT
          /\ w <= W /\ h <= H
          /\ IF M <= FIGMA_ABSOLUTE_LIMIT
             THEN <<w, h>> = <<W, H>>
             ELSE /\ <<w, h>> = <<Round(W * FIGMA_ABSOLUTE_LIMIT, M),
                                  Round(H * FIGMA_ABSOLUTE_LIMIT, M)>>
                  /\ (w * M - W * FIGMA_ABSOLUTE_LIMIT) \in (1 - M)..(M - 1)
                  /\ (h * M - H * FIGMA_ABSOLUTE_LIMIT) \in (1 - M)..(M - 1)]_vars

\* a 3000 x 5000 source is being exported, scaled to 2458 x 4096
C21_Witness ==
  /\ export.pc = "loadingSvg"
  /\ svg.viewBox = <<3000, 5000>>
  /\ export.renderCanvas = <<2458, 4096>>

(***************************************************************************)
(* The exported markup against the live graph's formula                    *)
(***************************************************************************)
\* The live graph's displacement scales for the current parameters, were the
\* image of the export's canvas size
LiveAtExportSize ==
  UpdateDisplacementScales(svg, settings,
    [engineState EXCEPT !.imageWidth = EXPORT_SIZE, !.imageHeight = EXPORT_SIZE])

\* C22: the per-channel displacement scales exportSVGCode writes as literals
\* are the values the live graph's formula gives for the same parameters at
\* the fixed export canvas size (maximum dimension 1024).
C22_ExportedScalesMatchLiveFormula ==
  [][hist'.op = "exportSVGCode" =>
       /\ hist'.code[1].dispScaleR = LiveAtExportSize.feDispMapR
       /\ hist'.code[1].dispScaleG = LiveAtExportSize.feDispMapG
       /\ hist'.code[1].dispScaleB = LiveAtExportSize.feDispMapB]_vars

\* markup was exported with strength and chromatic aberration set, the image
\* being of another size than the export canvas
C22_Witness ==
  /\ hist.op = "exportSVGCode"
  /\ settings.strength > 0 /\ settings.chromaticAberration > 0
  /\ hist.code[1].dispScaleR > hist.code[1].dispScaleG
  /\ hist.code[1].dispScaleG > hist.code[1].dispScaleB
  /\ engineState.imageWidth # EXPORT_SIZE

(***************************************************************************)
(* The preview texture of a large source                                   *)
(***************************************************************************)
\* C23: whenever the source image applied has a longest side above the
\* preview cap, the texture installed for the live preview is the downscaled
\* preview variant and not the full-resolution original, also when the same
\* bytes are loaded a second time.
C23_LargeSourceShowsPreviewVariant ==
  [][\A i \in 1..MaxSrcLoads :
       (/\ hist'.op = "srcApply" /\ hist'.id = i /\ srcLoads'[i].applied
        /\ Max2(SrcWidth(srcLoads[i].bytes), SrcHeight(srcLoads[i].bytes))
             > PREVIEW_MAX_SIZE)
         => /\ svg'.feSourceImgHref = PreviewMirrored(srcLoads[i].bytes, FALSE)
            /\ svg'.feSourceImgHref # OriginalMirrored(srcLoads[i].bytes)]_vars

(***************************************************************************)
(* The size of the processed-image cache                                   *)
(***************************************************************************)
\* C24: after every completed insertion the processed-image cache holds at
\* most IMAGE_CACHE_MAX_SIZE (10) entries.
C24_ImageCacheWithinCapacity ==
  [][Len(imageCache') > Len(imageCache)
       => Len(imageCache') <= IMAGE_CACHE_MAX_SIZE]_vars

(***************************************************************************)
(* A second initialisation on the same container                           *)
(***************************************************************************)
\* C25: initialising the engine on a container whose render surface is
\* already initialised fails with the "already initialized" error and
\* leaves the existing filter graph and engine state as they were.
C25_ReinitialisationFailsUntouched ==
  [][hist'.op = "initDisplacementEngine"
       => /\ hist'.error = AlreadyInitialized
          /\ svg' = svg
          /\ UNCHANGED <<settings, engineState, renderer, reflect>>]_vars

\* A second initialisation was refused on a graph the setters had changed
C25_Witness ==
  /\ hist.op = "initDisplacementEngine"
  /\ hist.error = AlreadyInitialized
  /\ svg # CreateSVGTemplate
  /\ svg.feDispMapR # 0

(***************************************************************************)
(* The thumbnail scheduler                                                 *)
(***************************************************************************)
\* The tasks whose function has started and not settled
RunningThumbs ==
  {i \in 1..MaxThumbs : thumbs.tasks[i].pc \in {"running", "loading", "snapshot"}}

\* C39: the number of thumbnail render tasks running at once never exceeds
\* maxConcurrent (inFlight counts exactly the running tasks), and a queued
\* task starts only in the step in which a running one finishes.
C39_AtMostMaxConcurrentRunning ==
  /\ [](/\ Cardinality(RunningThumbs) <= thumbs.maxConcurrent
        /\ thumbs.inFlight = Cardinality(RunningThumbs))
  /\ [][\A i \in 1..MaxThumbs :
          (thumbs.tasks[i].pc = "queued" /\ thumbs'.tasks[i].pc = "running")
            => \E j \in RunningThumbs : thumbs'.tasks[j].pc = "finished"]_vars

\* With four tasks allowed at once and two waiting, one finished and the
\* first of the waiting ones was started, the other still waits
C39_Witness ==
  /\ thumbs.maxConcurrent = 4 /\ thumbs.inFlight = 4
  /\ thumbs.tasks[1].pc = "finished"
  /\ thumbs.tasks[5].pc = "running"
  /\ thumbs.pending = <<6>>

\* C36: every promise returned by renderPresetThumbnail eventually settles,
\* also for a task that was queued when bumpGeneration was called.
C36_EveryThumbnailPromiseSettles ==
  \A i \in 1..MaxThumbs :
    (thumbs.tasks[i].promise = "pending")
      ~> (thumbs.tasks[i].promise \in {"resolved", "rejected"})

\* C38: after clear() the engine holds no displacement map, and as long as
\* no new map has been loaded (mapImage stays null) no redraw composes
\* layers: those could only be the layers of the map loaded before the clear.
C38_ClearDropsTheMap ==
  [][/\ hist'.op = "clear" => ~HasMap(engineState')
     /\ (engineState.mapImage = Null /\ engineState'.mapImage = Null /\ Recomputed)
          => renderer'.canvas.content = <<>>]_vars

\* C37: processImageForPreview returns textures derived from the bytes it
\* was given: the data URLs of a result, also of a cache hit, are made from
\* the buffer of the call, and no cache entry is shared by two buffers.
C37_TexturesOfTheGivenBytes ==
  \A i \in 1..MaxSrcLoads :
    srcLoads[i].pc \notin {"idle", "decoding", "previewDecoding"}
      /\ ~srcLoads[i].failed
      => srcLoads[i].image = srcLoads[i].bytes

\* C35: when the selection was cleared while a source-image load was in
\* flight (the loader holds no current image id when the load's handler
\* resumes), the UI reports no selected image after the load has settled:
\* hasSelectedImage is false and Apply stays disabled.
C35_ClearOutlivesEarlierLoad ==
  [][(hist'.op = "selectionLoaded" /\ loader.currentImageId = 0)
       => (~app'.hasSelectedImage /\ app'.applyDisabled)]_vars

\* C34: a reflect sharpness value set while batch mode is on (history:
\* hist.sharpInBatch, the value of the latest setSharpness call if it was
\* made in batch mode) is in the contrast tables once batch mode has been
\* left and the flush has run, with the table values that setting the value
\* in live mode gives.
C34_BatchedSharpnessReachesTables ==
  [][(/\ hist'.op = "triggerBatchUpdate"
      /\ hist.sharpInBatch # -1
      /\ ~reflect.isBatchMode)
       => reflect'.contrastTable =
            ReflectSetSharpness([reflect EXCEPT !.isBatchMode = FALSE],
                                hist.sharpInBatch).contrastTable]_vars

\* The images the layers of a texture were drawn from, bottom layer first
TextureImages(href) ==
  IF href.k = "png" THEN [n \in 1..Len(href.content) |-> href.content[n].image]
  ELSE <<>>

\* C33: every thumbnail applied for preset P is rendered from P's own map
\* layers and P's default scale and strength, also when several renders are
\* in flight at once on the thumbnail engine.
C33_ThumbnailShowsItsOwnPreset ==
  \A i \in 1..MaxMapLoads :
    Len(thumbs.tasks[i].applied) > 0 =>
      LET a == thumbs.tasks[i].applied[1]
          p == ThumbPresets[thumbs.tasks[i].preset]
      IN /\ TextureImages(a.feImgHref)
              = [n \in 1..Len(p.layers) |-> p.layers[n].src]
         /\ a.scalePct = p.defaultScale
         /\ a.strength = p.defaultStrength

(***************************************************************************)
(* Tiled layers                                                            *)
(***************************************************************************)
\* The canvas of the call in units of 1/d pixel, as the tiles are
TileCanvas ==
  <<hist.tiles.args.canvas[1] * hist.tiles.args.mapScale.d,
    hist.tiles.args.canvas[2] * hist.tiles.args.mapScale.d>>

\* C26: for every tile size, scale mode, alignment and offset, the tiles
\* drawn cover the whole canvas: each cell of the canvas lies in a tile.
C26_TilesCoverCanvas ==
  hist.op = "drawTiledMap" =>
    \A cx \in 0..(TileCanvas[1] - 1) : \A cy \in 0..(TileCanvas[2] - 1) :
      \E t \in hist.tiles.drawn :
        /\ t.x <= cx /\ cx + 1 <= t.x + t.w
        /\ t.y <= cy /\ cy + 1 <= t.y + t.h

\* A canvas covered by tiles larger than it, centred and shifted
C26_Witness ==
  /\ hist.op = "drawTiledMap"
  /\ hist.tiles.args.scaleMode = "uniform"
  /\ hist.tiles.args.alignX = "center"
  /\ hist.tiles.args.offsetX = 2
  /\ \A t \in hist.tiles.drawn : t.w > TileCanvas[1] /\ t.h > TileCanvas[2]
  /\ Cardinality(hist.tiles.drawn) > 1

\* C27: no tile lying entirely outside the canvas is drawn: every drawImage
\* call is for a tile that intersects the canvas.
C27_OnlyIntersectingTilesDrawn ==
  hist.op = "drawTiledMap" =>
    \A t \in hist.tiles.drawn :
      /\ t.x < TileCanvas[1] /\ t.x + t.w > 0
      /\ t.y < TileCanvas[2] /\ t.y + t.h > 0

(***************************************************************************)
(* Prefetching                                                             *)
(***************************************************************************)
\* The continuations of a queue that belong to loadMap calls
MapContinuations(queue) == SelectSeq(queue, LAMBDA t : t[1] # "prefetch")

\* C28: prefetchMapSources only fills the shared cache. Its steps (the call,
\* each loadImageWithCache it makes, and the arrival of an image no loadMap
\* waits for) leave the engine's map, the graph, the canvas and the redraw
\* timer as they were and make no loadMap continuation ready, also while a
\* loadMap is in progress.
C28_PrefetchLeavesEngineAlone ==
  [][(\/ hist'.op \in {"prefetchMapSources", "prefetchResolve"}
      \/ hist'.op = "decodeDone" /\ mapLoads' = mapLoads)
       => /\ engineState' = engineState
          /\ svg' = svg
          /\ renderer' = renderer
          /\ timer' = timer
          /\ mapLoads' = mapLoads
          /\ MapContinuations(microtasks') = MapContinuations(microtasks)]_vars

\* A prefetch of u1 has just joined the decode a pending loadMap of u1 started
C28_Witness ==
  /\ hist.op = "prefetchResolve"
  /\ "u1" \in DOMAIN inflightLoads
  /\ Len(inflightLoads["u1"]) = 2
  /\ inflightLoads["u1"][2] = 0
  /\ \E i \in 1..MaxMapLoads :
       /\ mapLoads[i].pc = "loading"
       /\ inflightLoads["u1"][1] = i
       /\ engineState.currentMapLoadingUrl = "u1"

(***************************************************************************)
(* Exports overtaken by a redraw or a source load                          *)
(***************************************************************************)
\* C29: when a redraw took effect while the export was suspended, the
\* export's cleanup leaves the displacement-texture href as the redraw wrote
\* it, and when a source image was applied in that time, it leaves the
\* source-texture href as that load wrote it.
C29_CleanupKeepsLaterWrites ==
  [][hist'.op = "exportSettle"
       => /\ renderer.renderGeneration # export.genBefore
               => svg'.feImgHref = svg.feImgHref
          /\ hist.srcApplied # export.srcBefore
               => svg'.feSourceImgHref = svg.feSourceImgHref]_vars

(***************************************************************************)
(* One shuffle at a time                                                   *)
(***************************************************************************)
\* The performBatchedShuffle calls that have started and not yet finished
ShufflesInProgress ==
  {i \in 1..MaxMapLoads : app.perform[i].pc \in {"importing", "loading"}}

\* C30: at most one shuffle is in progress at any time: no
\* performBatchedShuffle is started while an earlier one has not finished,
\* also after the watchdog has fired for the earlier one.
C30_OneShuffleAtATime == Cardinality(ShufflesInProgress) <= 1

(***************************************************************************)
(* The late completion of a shuffle that had timed out                     *)
(***************************************************************************)
\* C31: when a performBatchedShuffle completes while a newer shuffle is
\* still loading, the completion leaves the engine in batch mode, leaves the
\* newer shuffle's watchdog armed and applies none of its slider values.
C31_LateCompletionSparesNewerShuffle ==
  [][(/\ hist'.op = "shuffleLoaded"
      /\ ShufflesInProgress \ {hist'.id} # {})
       => /\ renderer'.isBatchMode = renderer.isBatchMode
          /\ app'.isShuffling = app.isShuffling
          /\ app'.shuffleTimeoutId = app.shuffleTimeoutId
          /\ settings' = settings]_vars

(***************************************************************************)
(* Timers set before batch mode was entered                                *)
(***************************************************************************)
\* C32: no timer callback recomputes the texture while batch mode is on.
\* (In batch mode triggerUpdate schedules nothing, and the application calls
\* the flush only from the timeout endShuffleOperation sets after leaving
\* batch mode: a callback that runs in batch mode comes from a debounced
\* update or a delayed flush scheduled before batch mode was entered.)
C32_NoTimerRecomputeInBatchMode ==
  [][(hist'.op = "timerFire" /\ renderer.isBatchMode) => ~Recomputed]_vars
====
